---- MODULE Spec2Model ----
(***************************************************************************)
(* A model of the tlsn-verifier service (src/src/lib.js, src/src/server.js):*)
(* the attestation normalization, validation and receipt-hash pipeline.    *)
(*                                                                         *)
(* JavaScript values are tagged records.  A string is a sequence of        *)
(* one-character tokens; a token that is not a space, a digit, a letter of *)
(* UpperOf or a separator stands for any run of other characters (so the   *)
(* one-token string <<"tx-1">> is a text with no space and no digit run).  *)
(* An object is an ordered sequence of <<key, value>> pairs, in            *)
(* Object.keys order, with no key twice.                                   *)
(***************************************************************************)
EXTENDS Integers, Sequences, FiniteSets, TLC

VARIABLES
    pc,          \* position of the operation under way
    host,        \* hostMatchesAllowedSuffix: the host argument
    allowedRaw,  \* parseAllowedHostSuffixes: the raw allow-list text
    hostMatch,   \* hostMatchesAllowedSuffix: the value returned
    expected,    \* validateExpected: the caller's expected constraints
    claim,       \* validateExpected: the normalized claim
    errors,      \* validateExpected: the list returned
    vplArgs,     \* verifyPresentationLocally: its argument object
    vplPc,       \* verifyPresentationLocally: the statement it is at
    presentationHex, \* verifyPresentationLocally: the extracted hex
    rawResult,   \* verifyPresentationLocally: what the collaborator returned
    invocations, \* calls of the verification collaborator so far
    freeCalls,   \* calls of rawResult.free so far
    vplOut,      \* verifyPresentationLocally: the value returned
    vplError,    \* verifyPresentationLocally: the message of the error thrown
    trAttestation, \* extractRecentTransfers: the attestation argument
    trRecv,      \* extractRecentTransfers: the transcript argument
    trLimit,     \* extractRecentTransfers: the limit argument (Undef: omitted)
    recent,      \* extractRecentTransfers: the list returned
    env,         \* server.js: process.env, read when the module loads
    notaryKeyCache, \* server.js: notaryKeyCache, notary URL to key
    payload,     \* handleVerifyWiseAttestation: the request body read
    hPc,         \* handleVerifyWiseAttestation: the statement it is at
    rawBag,      \* handleVerifyWiseAttestation: raw, the bag given to normalizeAndValidate
    gates,       \* normalizeAndValidate: the gates it evaluated, in order
    response,    \* sendJson: the status and the body sent
    callArgs,    \* a library function called on its own: its arguments
    callResult   \* a library function called on its own: the value returned

hostVars == <<host, allowedRaw, hostMatch>>
expectedVars == <<expected, claim, errors>>
vplVars == <<vplArgs, vplPc, presentationHex, rawResult, invocations, freeCalls, vplOut, vplError>>

transferVars == <<trAttestation, trRecv, trLimit, recent>>

handlerVars == <<env, notaryKeyCache, payload, hPc, rawBag, gates, response>>

callVars == <<callArgs, callResult>>

\* What verifyPresentationLocally leaves alone.
outsideVpl == <<pc, hostVars, expectedVars, transferVars, handlerVars, callVars>>

vars == <<pc, hostVars, expectedVars, vplVars, transferVars, handlerVars, callVars>>

----------------------------------------------------------------------------
(* JavaScript values                                                       *)

Undef == [t |-> "undef"]
Null == [t |-> "null"]
NaN == [t |-> "nan"]
Fn == [t |-> "fn"]
Bool(b) == [t |-> "bool", v |-> b]
\* A finite number: v is its integer part (truncation toward zero), frac
\* says whether it has a non-zero fractional part.
Num(n) == [t |-> "num", v |-> n, frac |-> FALSE]
Frac(n) == [t |-> "num", v |-> n, frac |-> TRUE]
Str(s) == [t |-> "str", v |-> s]
Obj(p) == [t |-> "obj", v |-> p]
Arr(a) == [t |-> "arr", v |-> a]

IsStr(x) == x.t = "str"
IsNum(x) == x.t = "num"

\* ToBoolean: undefined, null, NaN, 0, "" and false are falsy.
Truthy(x) ==
    CASE x.t = "undef" -> FALSE
      [] x.t = "null" -> FALSE
      [] x.t = "nan" -> FALSE
      [] x.t = "bool" -> x.v
      [] x.t = "num" -> (x.v # 0 \/ x.frac)
      [] x.t = "str" -> Len(x.v) > 0
      [] OTHER -> TRUE

\* a ?? b
Coalesce(a, b) == IF a.t \in {"undef", "null"} THEN b ELSE a

\* A 64-bit integer (the collaborator's time).
BigInt(n) == [t |-> "bigint", v |-> n]

\* A property whose getter throws when it is read.
Thrower == [t |-> "thrower"]

\* The collaborator threw (or its promise rejected).
Threw == [t |-> "threw"]

\* A field an input object does not have.
Absent == [t |-> "absent"]

\* The object with the given <<key, value>> pairs, the Absent ones left out.
RECURSIVE Present(_)
Present(pairs) ==
    IF pairs = <<>> THEN <<>>
    ELSE (IF Head(pairs)[2] = Absent THEN <<>> ELSE <<Head(pairs)>>) \o Present(Tail(pairs))

MkObj(pairs) == Obj(Present(pairs))

\* Object.keys
Keys(o) == [i \in 1..Len(o.v) |-> o.v[i][1]]

HasKey(o, k) == o.t = "obj" /\ \E i \in 1..Len(o.v) : o.v[i][1] = k

\* o[k] (o.k): undefined when o has no such own property.
Get(o, k) ==
    IF HasKey(o, k)
    THEN o.v[CHOOSE i \in 1..Len(o.v) : o.v[i][1] = k][2]
    ELSE Undef

----------------------------------------------------------------------------
(* Strings                                                                 *)

Space == " "
\* A line break (\n or \r\n).
NL == "nl"
WhiteSpace == {Space, NL}

RECURSIVE TrimStart(_)
TrimStart(s) ==
    IF s # <<>> /\ Head(s) \in WhiteSpace THEN TrimStart(Tail(s)) ELSE s

RECURSIVE TrimEnd(_)
TrimEnd(s) ==
    IF s # <<>> /\ s[Len(s)] \in WhiteSpace THEN TrimEnd(SubSeq(s, 1, Len(s) - 1)) ELSE s

\* String.prototype.trim
Trim(s) == TrimEnd(TrimStart(s))

\* The upper-case letters of the model's alphabet and their lower case.
UpperOf == [A |-> "a", B |-> "b", C |-> "c", D |-> "d", E |-> "e", F |-> "f", W |-> "w"]

LowerChar(c) == IF c \in DOMAIN UpperOf THEN UpperOf[c] ELSE c

\* String.prototype.toLowerCase
ToLowerCase(s) == [i \in 1..Len(s) |-> LowerChar(s[i])]

\* String.prototype.endsWith
EndsWith(s, suffix) ==
    /\ Len(suffix) <= Len(s)
    /\ SubSeq(s, Len(s) - Len(suffix) + 1, Len(s)) = suffix

\* String.prototype.startsWith
StartsWith(s, prefix) ==
    /\ Len(prefix) <= Len(s)
    /\ SubSeq(s, 1, Len(prefix)) = prefix

\* String.prototype.split(sep) for a one-character separator: the pieces
\* between the separators, empty pieces kept.
RECURSIVE SplitAcc(_, _, _)
SplitAcc(s, sep, cur) ==
    IF s = <<>> THEN <<cur>>
    ELSE IF Head(s) = sep THEN <<cur>> \o SplitAcc(Tail(s), sep, <<>>)
    ELSE SplitAcc(Tail(s), sep, Append(cur, Head(s)))

Split(s, sep) == SplitAcc(s, sep, <<>>)

\* Array.prototype.filter(Boolean) over strings: the empty strings go.
RECURSIVE FilterNonEmpty(_)
FilterNonEmpty(seq) ==
    IF seq = <<>> THEN <<>>
    ELSE (IF Head(seq) # <<>> THEN <<Head(seq)>> ELSE <<>>) \o FilterNonEmpty(Tail(seq))

Digits == {"0", "1", "2", "3", "4", "5", "6", "7", "8", "9"}

\* Number.prototype.toString for a non-negative integer below 10000.
DigitOf(d) == <<"0", "1", "2", "3", "4", "5", "6", "7", "8", "9">>[d + 1]

RECURSIVE NatToString(_)
NatToString(n) ==
    IF n < 10 THEN <<DigitOf(n)>> ELSE Append(NatToString(n \div 10), DigitOf(n % 10))

IntToString(n) == IF n < 0 THEN <<"-">> \o NatToString(0 - n) ELSE NatToString(n)

IsDigits(s) == s # <<>> /\ \A i \in 1..Len(s) : s[i] \in Digits

\* The value of a digit string.
RECURSIVE DigitsValue(_)
DigitsValue(s) ==
    IF s = <<>> THEN 0
    ELSE 10 * DigitsValue(SubSeq(s, 1, Len(s) - 1))
            + (CHOOSE d \in 0..9 : DigitOf(d) = s[Len(s)])

\* Number(text): the empty (or blank) text is 0, a digit run its value, a digit
\* run with a decimal part a fraction, anything else NaN.
NumberOfString(s) ==
    LET trimmed == Trim(s)
        dots == {i \in 1..Len(trimmed) : trimmed[i] = "."}
    IN  IF trimmed = <<>> THEN Num(0)
        ELSE IF IsDigits(trimmed) THEN Num(DigitsValue(trimmed))
        ELSE IF /\ Cardinality(dots) = 1
                /\ LET d == CHOOSE i \in dots : TRUE
                   IN  /\ IsDigits(SubSeq(trimmed, 1, d - 1))
                       /\ IsDigits(SubSeq(trimmed, d + 1, Len(trimmed)))
        THEN LET d == CHOOSE i \in dots : TRUE
                 whole == DigitsValue(SubSeq(trimmed, 1, d - 1))
                 part == DigitsValue(SubSeq(trimmed, d + 1, Len(trimmed)))
             IN  IF part = 0 THEN Num(whole) ELSE Frac(whole)
        ELSE NaN

\* Number(value)
NumberOf(x) ==
    CASE x.t = "num" -> x
      [] x.t = "str" -> NumberOfString(x.v)
      [] x.t = "null" -> Num(0)
      [] x.t = "bool" -> Num(IF x.v THEN 1 ELSE 0)
      [] OTHER -> NaN

\* Math.trunc
Trunc(x) == IF x.t = "num" THEN Num(x.v) ELSE NaN

\* String(value) for the values the model passes to it.
StringOf(x) ==
    CASE x.t = "str" -> x.v
      [] x.t = "num" -> IntToString(x.v)
      [] x.t = "undef" -> <<"undefined">>
      [] x.t = "null" -> <<"null">>
      [] x.t = "nan" -> <<"NaN">>
      [] OTHER -> <<"[object]">>

----------------------------------------------------------------------------
(* JSON.parse over token texts.  A text is a sequence of tokens: the       *)
(* punctuation { } [ ] , : and the quote, white space (Space, NL), digits, *)
(* true/false/null, and inside a string literal any other token.  A key is *)
(* a string literal of one token.                                          *)

Quote == "'"
EscQuote == "\\'"

RECURSIVE SkipWs(_)
SkipWs(ts) == IF ts # <<>> /\ Head(ts) \in WhiteSpace THEN SkipWs(Tail(ts)) ELSE ts

ParseFail == [ok |-> FALSE, val |-> Undef, rest |-> <<>>]
ParseOk(v, rest) == [ok |-> TRUE, val |-> v, rest |-> rest]

\* The characters of a string literal after its opening quote, up to the
\* closing quote; an escaped quote stands for a quote.
RECURSIVE ParseStringLit(_, _)
ParseStringLit(ts, acc) ==
    IF ts = <<>> THEN ParseFail
    ELSE IF Head(ts) = Quote THEN ParseOk(Str(acc), Tail(ts))
    ELSE IF Head(ts) = NL THEN ParseFail
    ELSE ParseStringLit(Tail(ts), Append(acc, IF Head(ts) = EscQuote THEN Quote ELSE Head(ts)))

RECURSIVE DigitRun(_)
DigitRun(ts) == IF ts # <<>> /\ Head(ts) \in Digits THEN <<Head(ts)>> \o DigitRun(Tail(ts)) ELSE <<>>

\* obj[k] = v of JSON.parse: a repeated key keeps its place, the last value.
SetKey(pairs, k, v) ==
    IF \E i \in 1..Len(pairs) : pairs[i][1] = k
    THEN [i \in 1..Len(pairs) |-> IF pairs[i][1] = k THEN <<k, v>> ELSE pairs[i]]
    ELSE Append(pairs, <<k, v>>)

\* A number literal: digits, then perhaps a point and digits; sign is 1 or -1.
ParseNumber(ts, sign) ==
    LET whole == DigitRun(ts)
        after == SubSeq(ts, Len(whole) + 1, Len(ts))
        part == IF after # <<>> /\ Head(after) = "." THEN DigitRun(Tail(after)) ELSE <<>>
    IN  IF part = <<>>
        THEN ParseOk(Num(sign * DigitsValue(whole)), after)
        ELSE ParseOk([t |-> "num", v |-> sign * DigitsValue(whole), frac |-> DigitsValue(part) # 0],
                     SubSeq(after, Len(part) + 2, Len(after)))

RECURSIVE ParseValue(_)
RECURSIVE ParseMembers(_, _)
RECURSIVE ParseElements(_, _)

ParseValue(text) ==
    LET ts == SkipWs(text)
    IN  IF ts = <<>> THEN ParseFail
        ELSE IF Head(ts) = "{" THEN
            (IF SkipWs(Tail(ts)) # <<>> /\ Head(SkipWs(Tail(ts))) = "}"
             THEN ParseOk(Obj(<<>>), Tail(SkipWs(Tail(ts))))
             ELSE ParseMembers(Tail(ts), <<>>))
        ELSE IF Head(ts) = "[" THEN
            (IF SkipWs(Tail(ts)) # <<>> /\ Head(SkipWs(Tail(ts))) = "]"
             THEN ParseOk(Arr(<<>>), Tail(SkipWs(Tail(ts))))
             ELSE ParseElements(Tail(ts), <<>>))
        ELSE IF Head(ts) = Quote THEN ParseStringLit(Tail(ts), <<>>)
        ELSE IF Head(ts) \in Digits THEN ParseNumber(ts, 1)
        ELSE IF Head(ts) = "-" /\ Tail(ts) # <<>> /\ ts[2] \in Digits THEN ParseNumber(Tail(ts), 0 - 1)
        ELSE IF Head(ts) = "true" THEN ParseOk(Bool(TRUE), Tail(ts))
        ELSE IF Head(ts) = "false" THEN ParseOk(Bool(FALSE), Tail(ts))
        ELSE IF Head(ts) = "null" THEN ParseOk(Null, Tail(ts))
        ELSE ParseFail

\* The members of an object after "{" or ",": key : value, then "," or "}".
ParseMembers(text, acc) ==
    LET ts == SkipWs(text)
    IN  IF ts = <<>> \/ Head(ts) # Quote THEN ParseFail
        ELSE LET key == ParseStringLit(Tail(ts), <<>>)
                 colon == SkipWs(key.rest)
             IN  IF ~key.ok \/ Len(key.val.v) # 1 \/ colon = <<>> \/ Head(colon) # ":"
                 THEN ParseFail
                 ELSE LET val == ParseValue(Tail(colon))
                          after == SkipWs(val.rest)
                          pairs == SetKey(acc, key.val.v[1], val.val)
                      IN  IF ~val.ok \/ after = <<>> THEN ParseFail
                          ELSE IF Head(after) = "}" THEN ParseOk(Obj(pairs), Tail(after))
                          ELSE IF Head(after) = "," THEN ParseMembers(Tail(after), pairs)
                          ELSE ParseFail

\* The elements of an array after "[" or ",": value, then "," or "]".
ParseElements(text, acc) ==
    LET val == ParseValue(text)
        after == SkipWs(val.rest)
        items == Append(acc, val.val)
    IN  IF ~val.ok \/ after = <<>> THEN ParseFail
        ELSE IF Head(after) = "]" THEN ParseOk(Arr(items), Tail(after))
        ELSE IF Head(after) = "," THEN ParseElements(Tail(after), items)
        ELSE ParseFail

\* JSON.parse(text), with a SyntaxError caught as undefined.
JsonParseOrUndef(text) ==
    LET r == ParseValue(text)
    IN  IF r.ok /\ SkipWs(r.rest) = <<>> THEN r.val ELSE Undef

----------------------------------------------------------------------------
(* lib.js: the presentation extractor                                      *)

asRecord(value) == IF ~Truthy(value) \/ value.t \notin {"obj", "arr"} THEN Obj(<<>>) ELSE value

HexChars == Digits \cup {"a", "b", "c", "d", "e", "f", "A", "B", "C", "D", "E", "F"}

isHexText(s) == s # <<>> /\ \A i \in 1..Len(s) : s[i] \in HexChars

normalizeHexString(value) ==
    IF ~IsStr(value) THEN Undef
    ELSE LET trimmed == Trim(value.v)
         IN  IF trimmed = <<>> THEN Undef
             ELSE IF StartsWith(trimmed, <<"0", "x">>) /\ isHexText(SubSeq(trimmed, 3, Len(trimmed)))
             THEN Str(ToLowerCase(SubSeq(trimmed, 3, Len(trimmed))))
             ELSE IF isHexText(trimmed) THEN Str(ToLowerCase(trimmed))
             ELSE Undef

maybeParseJsonString(value) ==
    IF ~IsStr(value) THEN Undef
    ELSE LET trimmed == Trim(value.v)
         IN  IF ~StartsWith(trimmed, <<"{">>) /\ ~StartsWith(trimmed, <<"[">>) THEN Undef
             ELSE JsonParseOrUndef(trimmed)

pickString(input, keys) ==
    LET hits == {i \in 1..Len(keys) : IsStr(Get(input, keys[i])) /\ Trim(Get(input, keys[i]).v) # <<>>}
    IN  IF hits = {} THEN Undef
        ELSE Str(Trim(Get(input, keys[CHOOSE i \in hits : \A j \in hits : i <= j]).v))

\* What pickNumber makes of one value: a finite number, or nothing.
numberPicked(value) ==
    IF IsNum(value) THEN value
    ELSE IF IsStr(value) /\ Trim(value.v) # <<>> /\ IsNum(NumberOfString(Trim(value.v)))
    THEN NumberOfString(Trim(value.v))
    ELSE Undef

pickNumber(input, keys) ==
    LET hits == {i \in 1..Len(keys) : numberPicked(Get(input, keys[i])) # Undef}
    IN  IF hits = {} THEN Undef
        ELSE numberPicked(Get(input, keys[CHOOSE i \in hits : \A j \in hits : i <= j]))

\* The recursion bound of extractPresentationHex.
MaxDepth == 5

candidateKeys ==
    <<"presentationHex", "presentation_hex", "presentation", "proof", "proofHex",
      "attestationHex", "data">>

RECURSIVE extractPresentationHex(_, _)
RECURSIVE extractFromKeys(_, _, _)

\* The first hit of extractPresentationHex over record[key], key from the
\* k-th candidate key on.
extractFromKeys(record, k, depth) ==
    IF k > Len(candidateKeys) THEN Undef
    ELSE LET nested == extractPresentationHex(Get(record, candidateKeys[k]), depth + 1)
         IN  IF Truthy(nested) THEN nested ELSE extractFromKeys(record, k + 1, depth)

\* The mutant of extractPresentationHex: it gives up one level earlier.
extractPresentationHexShallow(attestation, depth) ==
    IF depth >= MaxDepth THEN Undef
    ELSE LET direct == normalizeHexString(attestation)
             parsed == maybeParseJsonString(attestation)
             viaParsed == IF Truthy(parsed) THEN extractPresentationHex(parsed, depth + 1) ELSE Undef
             record == asRecord(attestation)
             viaKeys == extractFromKeys(record, 1, depth)
         IN  IF Truthy(direct) THEN direct
             ELSE IF Truthy(viaParsed) THEN viaParsed
             ELSE IF Len(record.v) = 0 THEN Undef
             ELSE IF Truthy(viaKeys) THEN viaKeys
             ELSE extractFromKeys(asRecord(Get(record, "meta")), 1, depth)

extractPresentationHex(attestation, depth) ==
    IF depth > MaxDepth THEN Undef
    ELSE LET direct == normalizeHexString(attestation)
             parsed == maybeParseJsonString(attestation)
             viaParsed == IF Truthy(parsed) THEN extractPresentationHex(parsed, depth + 1) ELSE Undef
             record == asRecord(attestation)
             viaKeys == extractFromKeys(record, 1, depth)
         IN  IF Truthy(direct) THEN direct
             ELSE IF Truthy(viaParsed) THEN viaParsed
             ELSE IF Len(record.v) = 0 THEN Undef
             ELSE IF Truthy(viaKeys) THEN viaKeys
             ELSE extractFromKeys(asRecord(Get(record, "meta")), 1, depth)

\* JSON.stringify: keys in Object.keys order, no white space, a quote
\* inside a string escaped.
EscapeChars(s) == [i \in 1..Len(s) |-> IF s[i] = Quote THEN EscQuote ELSE s[i]]

\* The properties JSON.stringify writes: not the undefined ones, nor functions.
RECURSIVE Stringifiable(_)
Stringifiable(pairs) ==
    IF pairs = <<>> THEN <<>>
    ELSE (IF Head(pairs)[2].t \in {"undef", "fn"} THEN <<>> ELSE <<Head(pairs)>>)
            \o Stringifiable(Tail(pairs))

RECURSIVE Stringify(_)
RECURSIVE StringifyMembers(_)
RECURSIVE StringifyElements(_)

Stringify(x) ==
    CASE x.t = "str" -> <<Quote>> \o EscapeChars(x.v) \o <<Quote>>
      [] x.t = "num" -> IntToString(x.v) \o (IF x.frac THEN <<".", "5">> ELSE <<>>)
      [] x.t = "bool" -> IF x.v THEN <<"true">> ELSE <<"false">>
      [] x.t = "obj" -> <<"{">> \o StringifyMembers(Stringifiable(x.v)) \o <<"}">>
      [] x.t = "arr" -> <<"[">> \o StringifyElements(x.v) \o <<"]">>
      [] OTHER -> <<"null">>

StringifyMembers(pairs) ==
    IF pairs = <<>> THEN <<>>
    ELSE <<Quote, Head(pairs)[1], Quote, ":">> \o Stringify(Head(pairs)[2])
            \o (IF Tail(pairs) = <<>> THEN <<>> ELSE <<",">> \o StringifyMembers(Tail(pairs)))

StringifyElements(items) ==
    IF items = <<>> THEN <<>>
    ELSE Stringify(Head(items))
            \o (IF Tail(items) = <<>> THEN <<>> ELSE <<",">> \o StringifyElements(Tail(items)))

----------------------------------------------------------------------------
(* lib.js: the transcript transfer scanner                                 *)

toFiniteNumber(value) == numberPicked(value)

\* Date.parse, in seconds, of the date texts the model knows; NaN otherwise.
DateTexts == [d1970 |-> 0, d2025 |-> 1739102400]

DateParseSeconds(s) ==
    IF Len(s) = 1 /\ s[1] \in DOMAIN DateTexts THEN Num(DateTexts[s[1]]) ELSE NaN

\* The numbers of the model are below 10^12, the bound from which
\* toUnixSeconds reads a number as milliseconds.
toUnixSeconds(value) ==
    IF IsNum(toFiniteNumber(value)) THEN Trunc(toFiniteNumber(value))
    ELSE IF IsStr(value) /\ Trim(value.v) # <<>> /\ IsNum(DateParseSeconds(Trim(value.v)))
    THEN DateParseSeconds(Trim(value.v))
    ELSE Undef

tryParseJson(text) ==
    IF ~IsStr(text) \/ Trim(text.v) = <<>> THEN Undef ELSE JsonParseOrUndef(Trim(text.v))

\* text.split(/\r?\n\r?\n/g): the pieces between blank lines, from the
\* token at index from on.
RECURSIVE SplitBlank(_, _)
SplitBlank(ts, from) ==
    LET cuts == {i \in from..(Len(ts) - 1) : ts[i] = NL /\ ts[i + 1] = NL}
    IN  IF cuts = {} THEN <<SubSeq(ts, from, Len(ts))>>
        ELSE LET c == CHOOSE i \in cuts : \A j \in cuts : i <= j
             IN  <<SubSeq(ts, from, c - 1)>> \o SplitBlank(ts, c + 2)

\* Set.prototype.add on an insertion-ordered set.
AddUnique(seq, x) == IF \E i \in 1..Len(seq) : seq[i] = x THEN seq ELSE Append(seq, x)

RECURSIVE AddSections(_, _)
AddSections(candidates, parts) ==
    IF parts = <<>> THEN candidates
    ELSE LET part == Trim(Head(parts))
         IN  AddSections(IF part # <<>> /\ Head(part) \in {"{", "["}
                         THEN AddUnique(candidates, part) ELSE candidates,
                         Tail(parts))

\* indexOf and lastIndexOf, 1-based; 0 when the token does not occur.
IndexOf(ts, c) ==
    IF \E i \in 1..Len(ts) : ts[i] = c
    THEN CHOOSE i \in 1..Len(ts) : ts[i] = c /\ \A j \in 1..(i - 1) : ts[j] # c
    ELSE 0

LastIndexOf(ts, c) ==
    IF \E i \in 1..Len(ts) : ts[i] = c
    THEN CHOOSE i \in 1..Len(ts) : ts[i] = c /\ \A j \in (i + 1)..Len(ts) : ts[j] # c
    ELSE 0

\* The slice from the first open to the last close, added when there is one.
AddSlice(candidates, text, open, close) ==
    IF IndexOf(text, open) > 0 /\ LastIndexOf(text, close) > IndexOf(text, open)
    THEN AddUnique(candidates, SubSeq(text, IndexOf(text, open), LastIndexOf(text, close)))
    ELSE candidates

RECURSIVE ParsedBodies(_)
ParsedBodies(candidates) ==
    IF candidates = <<>> THEN <<>>
    ELSE (IF tryParseJson(Str(Head(candidates))) # Undef
          THEN <<tryParseJson(Str(Head(candidates)))>> ELSE <<>>)
            \o ParsedBodies(Tail(candidates))

extractJsonBodiesFromRecv(recv) ==
    LET text == StringOf(IF Truthy(recv) THEN recv ELSE Str(<<>>))
        sections == AddSections(<<>>, SplitBlank(text, 1))
        withObject == AddSlice(sections, text, "{", "}")
        withArray == AddSlice(withObject, text, "[", "]")
    IN  IF text = <<>> THEN <<>> ELSE ParsedBodies(withArray)

\* flattenArrays: every array inside value, depth first, each as its items.
RECURSIVE flattenArrays(_)
RECURSIVE flattenEach(_)

flattenEach(values) ==
    IF values = <<>> THEN <<>> ELSE flattenArrays(Head(values)) \o flattenEach(Tail(values))

flattenArrays(value) ==
    IF value.t = "arr" THEN <<value.v>> \o flattenEach(value.v)
    ELSE IF value.t = "obj" THEN flattenEach([i \in 1..Len(value.v) |-> value.v[i][2]])
    ELSE <<>>

\* a ?? b ?? c over the results of pickString.
FirstDefined(values) ==
    IF \E i \in 1..Len(values) : values[i] # Undef
    THEN values[CHOOSE i \in 1..Len(values) :
                    values[i] # Undef /\ \A j \in 1..(i - 1) : values[j] = Undef]
    ELSE Undef

RECURSIVE SkipSpaces(_)
SkipSpaces(ts) == IF ts # <<>> /\ Head(ts) \in WhiteSpace THEN SkipSpaces(Tail(ts)) ELSE ts

\* The least number of digits of a transaction number in free text.
MinTransactionDigits == 6

\* /transaction\s*(?:number|id)?\s*#?\s*([0-9]{6,})/i matched at the word
\* "transaction" at position i: the digits captured, or <<>>.
transactionDigitsAt(text, i) ==
    LET afterWord == SkipSpaces(SubSeq(text, i + 1, Len(text)))
        afterKind == IF afterWord # <<>> /\ ToLowerCase(<<Head(afterWord)>>)[1] \in {"number", "id"}
                     THEN SkipSpaces(Tail(afterWord)) ELSE afterWord
        afterHash == IF afterKind # <<>> /\ Head(afterKind) = "#"
                     THEN SkipSpaces(Tail(afterKind)) ELSE afterKind
        run == DigitRun(afterHash)
    IN  IF Len(run) >= MinTransactionDigits THEN run ELSE <<>>

transactionNumber(text) ==
    LET hits == {i \in 1..Len(text) :
                    text[i] \in {"transaction", "Transaction"} /\ transactionDigitsAt(text, i) # <<>>}
    IN  IF hits = {} THEN Undef
        ELSE Str(transactionDigitsAt(text, CHOOSE i \in hits : \A j \in hits : i <= j))

OrEmpty(x) == IF x = Undef THEN Str(<<>>) ELSE x

normalizeTransferItem(item) ==
    LET row == asRecord(item)
        amount == FirstDefined(<<
            pickString(row, <<"amount", "amountText", "value", "paymentAmount", "transferAmount">>),
            pickString(asRecord(Get(row, "amount")), <<"value", "text", "amount", "formatted">>) >>)
        timestampRaw == FirstDefined(<<
            pickNumber(row, <<"timestamp", "time", "createdAtTs", "created_at_ts">>),
            pickString(row, <<"createdAt", "created_at", "paidAt", "date", "time">>) >>)
        payerRef == FirstDefined(<<
            pickString(row, <<"payerRef", "payer", "sender", "from", "counterparty", "name">>),
            pickString(asRecord(Get(row, "sender")), <<"name", "id">>),
            pickString(asRecord(Get(row, "counterparty")), <<"name", "id">>) >>)
        transferText == OrEmpty(FirstDefined(<<
            pickString(row, <<"description", "details", "title", "note">>),
            pickString(asRecord(Get(row, "transaction")), <<"description", "details", "title", "note">>) >>))
        transferId == FirstDefined(<<
            pickString(row, <<"transferId", "paymentId", "transactionId", "transactionNumber",
                              "transactionNo", "transaction_number", "id", "reference">>),
            pickString(asRecord(Get(row, "transaction")),
                       <<"id", "reference", "transactionId", "transactionNumber", "transactionNo">>),
            transactionNumber(transferText.v) >>)
        status == pickString(row, <<"status", "state", "paymentStatus">>)
        currency == FirstDefined(<<
            pickString(row, <<"currency", "ccy">>),
            pickString(asRecord(Get(row, "amount")), <<"currency", "ccy">>) >>)
    IN  IF Len(row.v) = 0 THEN Undef
        ELSE IF amount = Undef /\ transferId = Undef /\ payerRef = Undef THEN Undef
        ELSE MkObj(<< <<"amount", OrEmpty(amount)>>,
                      <<"timestamp", toUnixSeconds(timestampRaw)>>,
                      <<"payerRef", OrEmpty(payerRef)>>,
                      <<"transferId", OrEmpty(transferId)>>,
                      <<"status", OrEmpty(status)>>,
                      <<"currency", OrEmpty(currency)>> >>)

DefaultLimit == 5
MinLimit == 1
MaxLimit == 10

Max(a, b) == IF a >= b THEN a ELSE b
Min(a, b) == IF a <= b THEN a ELSE b

\* Math.max(1, Math.min(10, Math.trunc(Number(limit) || 5))), limit = 5 when
\* the argument is omitted.
clampLimit(limit) ==
    LET given == IF limit = Undef THEN Num(DefaultLimit) ELSE limit
        number == IF Truthy(NumberOf(given)) THEN NumberOf(given) ELSE Num(DefaultLimit)
    IN  Max(MinLimit, Min(MaxLimit, Trunc(number).v))

\* The mutant of scanRoots: the transcript bodies come first.
scanRootsBodiesFirst(attestation, recv) ==
    LET attestationRecord == asRecord(attestation)
    IN  extractJsonBodiesFromRecv(recv)
        \o (IF Len(attestationRecord.v) > 0
            THEN <<attestationRecord, asRecord(Get(attestationRecord, "claimData")),
                   asRecord(Get(attestationRecord, "data")), asRecord(Get(attestationRecord, "fields"))>>
            ELSE <<>>)

\* The roots extractRecentTransfers scans, in order.
scanRoots(attestation, recv) ==
    LET attestationRecord == asRecord(attestation)
    IN  (IF Len(attestationRecord.v) > 0
         THEN <<attestationRecord, asRecord(Get(attestationRecord, "claimData")),
                asRecord(Get(attestationRecord, "data")), asRecord(Get(attestationRecord, "fields"))>>
         ELSE <<>>)
        \o extractJsonBodiesFromRecv(recv)

\* The items the three nested loops visit, in order, each with its indices
\* (from 0, as in the code).
RECURSIVE visitsOfArray(_, _, _, _)
visitsOfArray(arr, rootIndex, arrIndex, itemIndex) ==
    IF itemIndex >= Len(arr) THEN <<>>
    ELSE <<[item |-> arr[itemIndex + 1], root |-> rootIndex, arr |-> arrIndex, idx |-> itemIndex]>>
            \o visitsOfArray(arr, rootIndex, arrIndex, itemIndex + 1)

RECURSIVE visitsOfArrays(_, _, _)
visitsOfArrays(arrays, rootIndex, arrIndex) ==
    IF arrIndex >= Len(arrays) THEN <<>>
    ELSE visitsOfArray(arrays[arrIndex + 1], rootIndex, arrIndex, 0)
            \o visitsOfArrays(arrays, rootIndex, arrIndex + 1)

RECURSIVE visitsOfRoots(_, _)
visitsOfRoots(roots, rootIndex) ==
    IF rootIndex >= Len(roots) THEN <<>>
    ELSE visitsOfArrays(flattenArrays(roots[rootIndex + 1]), rootIndex, 0)
            \o visitsOfRoots(roots, rootIndex + 1)

hasStrongId(rec) == Truthy(Get(rec, "transferId")) \/ IsNum(Get(rec, "timestamp"))

\* The deduplication key of a record found at a visit.
dedupKey(rec, visit) ==
    LET keyBase == Get(rec, "transferId").v \o <<"|">> \o StringOf(Get(rec, "timestamp")) \o <<"|">>
                      \o Get(rec, "amount").v \o <<"|">> \o Get(rec, "payerRef").v
    IN  IF hasStrongId(rec) THEN keyBase
        ELSE keyBase \o <<"|row:">> \o IntToString(visit.root) \o <<":">> \o IntToString(visit.arr)
                \o <<":">> \o IntToString(visit.idx)

\* The loop body over the visits from the k-th on, with the keys seen and
\* the result so far; it returns as soon as the result holds max records.
RECURSIVE scanVisits(_, _, _, _, _)
scanVisits(visits, k, seen, result, max) ==
    IF k > Len(visits) THEN result
    ELSE LET rec == normalizeTransferItem(visits[k].item)
         IN  IF rec = Undef THEN scanVisits(visits, k + 1, seen, result, max)
             ELSE IF dedupKey(rec, visits[k]) \in seen THEN scanVisits(visits, k + 1, seen, result, max)
             ELSE IF Len(result) + 1 >= max THEN Append(result, rec)
             ELSE scanVisits(visits, k + 1, seen \cup {dedupKey(rec, visits[k])},
                             Append(result, rec), max)

extractRecentTransfers(attestation, recv, limit) ==
    scanVisits(visitsOfRoots(scanRoots(attestation, recv), 0), 1, {}, <<>>, clampLimit(limit))

----------------------------------------------------------------------------
(* lib.js: the domain allow-list                                           *)

WiseCom == <<"w", "i", "s", "e", ".", "c", "o", "m">>
TransferwiseCom == <<"t", "r", "a", "n", "s", "f", "e", "r">> \o WiseCom

\* The default of parseAllowedHostSuffixes: "wise.com,transferwise.com".
DefaultAllowedRaw == WiseCom \o <<",">> \o TransferwiseCom

parseAllowedHostSuffixes(raw) ==
    LET value == Coalesce(raw, Str(DefaultAllowedRaw)).v
        items == Split(value, ",")
        mapped == [i \in 1..Len(items) |-> ToLowerCase(Trim(items[i]))]
    IN  FilterNonEmpty(mapped)

\* The mutant of hostMatchesAllowedSuffix: a bare endsWith, without the dot.
hostMatchesAllowedSuffixNoDot(h, suffixes) ==
    LET normalized == ToLowerCase(Trim(StringOf(IF Truthy(h) THEN h ELSE Str(<<>>))))
    IN  \E i \in 1..Len(suffixes) :
            normalized = suffixes[i] \/ EndsWith(normalized, suffixes[i])

hostMatchesAllowedSuffix(h, suffixes) ==
    LET normalized == ToLowerCase(Trim(StringOf(IF Truthy(h) THEN h ELSE Str(<<>>))))
    IN  \E i \in 1..Len(suffixes) :
            normalized = suffixes[i] \/ EndsWith(normalized, <<".">> \o suffixes[i])

----------------------------------------------------------------------------
(* lib.js: the expected constraints                                        *)

isUnsignedIntegerText(value) ==
    IsDigits(Trim(StringOf(IF Truthy(value) THEN value ELSE Str(<<>>))))

\* The allowed clock skew, 30 * 60 seconds.
SkewSeconds == 1800

Abs(n) == IF n < 0 THEN 0 - n ELSE n

\* The amount check of validateExpected.
amountErrors(exp, norm) ==
    IF /\ IsStr(Get(exp, "amount"))
       /\ isUnsignedIntegerText(Get(exp, "amount"))
       /\ isUnsignedIntegerText(Get(norm, "amount"))
       /\ Get(exp, "amount") # Get(norm, "amount")
    THEN << <<"amount mismatch: expected=">> \o StringOf(Get(exp, "amount"))
              \o <<", actual=">> \o StringOf(Get(norm, "amount")) >>
    ELSE <<>>

\* The mutant of timestampErrors: a difference of exactly the skew fails too.
timestampErrorsAtSkew(exp, norm) ==
    IF IsNum(Get(exp, "timestamp"))
    THEN LET lhs == Trunc(Get(exp, "timestamp"))
             ts == Get(norm, "timestamp")
             rhs == Trunc(NumberOf(IF Truthy(ts) THEN ts ELSE Num(0)))
         IN  IF rhs.t = "num" /\ Abs(lhs.v - rhs.v) >= SkewSeconds
             THEN << <<"timestamp out of skew: expected=">> \o StringOf(lhs)
                       \o <<", actual=">> \o StringOf(rhs) >>
             ELSE <<>>
    ELSE <<>>

\* The timestamp check of validateExpected.
timestampErrors(exp, norm) ==
    IF IsNum(Get(exp, "timestamp"))
    THEN LET lhs == Trunc(Get(exp, "timestamp"))
             ts == Get(norm, "timestamp")
             rhs == Trunc(NumberOf(IF Truthy(ts) THEN ts ELSE Num(0)))
         IN  IF rhs.t = "num" /\ Abs(lhs.v - rhs.v) > SkewSeconds
             THEN << <<"timestamp out of skew: expected=">> \o StringOf(lhs)
                       \o <<", actual=">> \o StringOf(rhs) >>
             ELSE <<>>
    ELSE <<>>

\* The transferId and payerRef checks of validateExpected, for field name f.
textErrors(exp, norm, f) ==
    IF /\ IsStr(Get(exp, f))
       /\ Trim(Get(exp, f).v) # <<>>
       /\ IsStr(Get(norm, f))
       /\ Trim(Get(norm, f).v) # <<>>
       /\ Trim(Get(exp, f).v) # Trim(Get(norm, f).v)
    THEN << <<f, " mismatch: expected=">> \o Get(exp, f).v
              \o <<", actual=">> \o Get(norm, f).v >>
    ELSE <<>>

validateExpected(exp, norm) ==
    IF ~Truthy(exp) \/ exp.t # "obj" THEN <<>>
    ELSE amountErrors(exp, norm) \o timestampErrors(exp, norm)
            \o textErrors(exp, norm, "transferId") \o textErrors(exp, norm, "payerRef")

----------------------------------------------------------------------------
(* Bounds and input sets                                                   *)

MaxHostLen == 3
MaxAllowedLen == 3

\* All strings over alphabet of length at most n.
RECURSIVE StringsUpTo(_, _)
StringsUpTo(alphabet, n) ==
    IF n = 0 THEN {<<>>}
    ELSE LET shorter == StringsUpTo(alphabet, n - 1)
         IN  shorter \cup {Append(s, c) : s \in shorter, c \in alphabet}

EvilWiseCom == <<"e", "v", "i", "l">> \o WiseCom
ApiWiseCom == <<"a", "p", "i", ".">> \o WiseCom

HostInputs ==
    {Str(s) : s \in StringsUpTo({"a", "A", ".", Space}, MaxHostLen)
                      \cup {WiseCom, ApiWiseCom, EvilWiseCom, <<"W">> \o Tail(WiseCom),
                            <<Space>> \o ApiWiseCom \o <<Space>>}}
        \cup {Undef}

AllowedRawInputs ==
    {Str(s) : s \in StringsUpTo({"a", "A", ".", ",", Space}, MaxAllowedLen)} \cup {Undef}

MaxAmountLen == 2

AmountTexts == StringsUpTo({"1", ".", Space}, MaxAmountLen)

\* What normalizeVerifierData's pickString can return: trimmed, not empty.
Picked(texts) == {Str(s) : s \in {x \in texts : x # <<>> /\ Trim(x) = x}} \cup {Undef}

ExpectedInputs ==
    {MkObj(<< <<"amount", a>>, <<"timestamp", ts>>, <<"transferId", id>>, <<"payerRef", p>> >>) :
        a \in {Str(s) : s \in AmountTexts} \cup {Num(1), Absent},
        ts \in {Num(3600), Frac(3600), Absent},
        id \in {Str(<<"t1">>), Str(<<"t2", Space>>), Absent},
        p \in {Str(<<"p2">>), Absent}}
        \cup {Undef, Num(1)}

NormalizedInputs ==
    {MkObj(<< <<"amount", a>>, <<"timestamp", ts>>, <<"payerRef", p>>, <<"transferId", id>>,
              <<"sourceHost", Str(WiseCom)>> >>) :
        a \in Picked(AmountTexts),
        ts \in {Num(5400), Num(5401), Frac(5400), Num(1800), Num(1799), Undef},
        id \in {Str(<<"t1">>), Str(<<"t2">>)},
        p \in {Str(<<"p1">>), Undef}}

\* What the verification collaborator can do when called: throw, return
\* nothing, or return a result object.
HttpHeader == <<"HTTP/1.1 200 OK", NL, "content-type: application/json">>

\* A transfer with an id and a timestamp, as in test/lib.test.mjs.
TransferItem(i) ==
    MkObj(<< <<"id", Str(<<"t", DigitOf(i)>>)>>, <<"amount", Str(<<DigitOf(i), "0">>)>>,
             <<"timestamp", Num(i)>>, <<"payer", Str(<<"p", DigitOf(i)>>)>> >>)

Transcript ==
    HttpHeader \o <<NL, NL>> \o Stringify(MkObj(<< <<"transactions", Arr(<<TransferItem(1)>>)>> >>))

CollaboratorOutcomes ==
    {MkObj(<< <<"sent", sent>>, <<"recv", recv>>, <<"server_name", name>>, <<"time", time>>,
              <<"free", free>> >>) :
        sent \in {Str(<<"GET / HTTP/1.1">>), Thrower},
        recv \in {Str(Transcript), Absent},
        name \in {Str(ApiWiseCom), Str(EvilWiseCom), Absent},
        time \in {BigInt(5000), Str(<<"5", "0", "0", "0", ".", "5">>), Absent},
        free \in {Fn, Absent}}
        \cup {Undef, Threw}

HexText == <<"0", "x", "a", "B", "1">>
Pem == <<"-----BEGIN PUBLIC KEY-----">>

VplArgInputs ==
    {MkObj(<< <<"attestation", a>>, <<"notaryPublicKeyPem", k>>, <<"verifyPresentation", f>> >>) :
        a \in {MkObj(<< <<"presentation", Str(HexText)>> >>),
               MkObj(<< <<"version", Str(<<"v1">>)>>, <<"data", Str(HexText)>> >>),
               Str(<<"{", Quote, "proof", Quote, ":", Quote>> \o HexText \o <<Quote, "}">>),
               MkObj(<< <<"presentation", Str(<<"z", "z">>)>> >>),
               Obj(<<>>), Undef},
        k \in {Str(Pem), Str(<<Space>>), Str(<<>>), Num(1), Absent},
        f \in {Fn, Str(<<"verify">>), Absent}}

VplIdle ==
    /\ vplArgs = Undef
    /\ vplPc = "idle"
    /\ presentationHex = Undef
    /\ rawResult = Absent
    /\ invocations = 0
    /\ freeCalls = 0
    /\ vplOut = Undef
    /\ vplError = <<>>

MaxItems == 2

Reverse(seq) == [i \in 1..Len(seq) |-> seq[Len(seq) + 1 - i]]

\* A transfer with neither an id nor a timestamp.
WeakItem(i) ==
    MkObj(<< <<"amount", Str(<<DigitOf(i), "0">>)>>, <<"payer", Str(<<"p", DigitOf(i)>>)>> >>)

\* A transfer with a date and no id.
TimedItem == MkObj(<< <<"amount", Str(<<"7", "0">>)>>, <<"paidAt", Str(<<"d2025">>)>> >>)

\* A transfer whose id is in its description only.
DescribedItem ==
    MkObj(<< <<"description", Str(<<"Transaction", Space, "number", Space, "#",
                                     "1", "2", "3", "4", "5", "6">>)>>,
             <<"amount", Obj(<< <<"value", Str(<<"5">>)>>, <<"currency", Str(<<"EUR">>)>> >>)>> >>)

ItemKinds == {TransferItem(1), WeakItem(1), Obj(<<>>)}

SixTransfers == [i \in 1..6 |-> TransferItem(i)]
SixWeak == [i \in 1..6 |-> WeakItem(i)]

ItemLists ==
    StringsUpTo(ItemKinds, MaxItems)
        \cup {SixTransfers, SixWeak, <<TimedItem, DescribedItem, Num(7), WeakItem(2), TimedItem>>}

\* The attestations that carry the items of a list.
AttestationsOf(list) ==
    { Obj(<<>>),
      MkObj(<< <<"kind", Str(<<"tlsn">>)>> >>),
      MkObj(<< <<"transfers", Arr(list)>> >>),
      MkObj(<< <<"data", MkObj(<< <<"transfers", Arr(Reverse(list))>> >>)>> >>),
      MkObj(<< <<"fields", MkObj(<< <<"rows", Arr(IF list = <<>> THEN <<>> ELSE Tail(list))>> >>)>>,
               <<"claimData", MkObj(<< <<"rows", Arr(IF list = <<>> THEN <<>> ELSE <<Head(list)>>)>> >>)>> >>),
      MkObj(<< <<"list", Arr(<<Arr(list), MkObj(<< <<"inner", Arr(Reverse(list))>> >>)>>)>> >>) }

\* The transcripts that carry the items of a list.
TranscriptsOf(list) ==
    { Str(<<>>),
      Str(HttpHeader \o <<NL, NL>> \o Stringify(MkObj(<< <<"transactions", Arr(list)>> >>))),
      Str(Stringify(Arr(list))),
      Str(HttpHeader \o <<NL, NL>> \o Stringify(MkObj(<< <<"first", Arr(list)>> >>))
            \o <<NL, NL>> \o Stringify(MkObj(<< <<"second", Arr(Reverse(list))>> >>)) \o <<NL>>),
      Str(HttpHeader \o <<NL, NL, "{", "oops">>) }

LimitInputs ==
    {Undef, Str(<<"abc">>), Str(<<"3">>), Frac(0), Frac(2)}
        \cup {Num(k) : k \in {0 - 1, 0, 1, 2, 5, 6, 10, 12}}

TransferIdle == trAttestation = Undef /\ trRecv = Undef /\ trLimit = Undef /\ recent = <<>>

HandlerIdle ==
    /\ env = Undef
    /\ notaryKeyCache = Obj(<<>>)
    /\ payload = Undef
    /\ hPc = "idle"
    /\ rawBag = Absent
    /\ gates = <<>>
    /\ response = Absent

CallIdle == callArgs = Undef /\ callResult = Absent

HostIdle == host = Undef /\ allowedRaw = Undef /\ hostMatch = Undef

ExpectedIdle == expected = Undef /\ claim = Undef /\ errors = <<>>

----------------------------------------------------------------------------
(* lib.js: verifyPresentationLocally, statement by statement               *)

ErrVerifyFn == <<"verifyPresentation function is required">>
ErrKey == <<"missing notary public key PEM">>
ErrHex == <<"unable to extract presentation hex from attestation payload">>
\* The messages of errors that come from the collaborator and its result.
ErrCollaborator == <<"presentation verification failed">>
ErrGetter == <<"result property getter failed">>

\* typeof verifyPresentation !== "function"
verifyFnMissing(f) == f.t # "fn"

\* The mutant of notaryKeyMissing: the empty text passes.
notaryKeyMissingEmptyOk(key) == ~IsStr(key)

\* !notaryPublicKeyPem || typeof notaryPublicKeyPem !== "string"
notaryKeyMissing(key) == ~Truthy(key) \/ ~IsStr(key)

\* The properties of rawResult the reduction reads.
reducedKeys == <<"sent", "recv", "server_name", "time">>

\* The reduction of rawResult to sent, recv, serverName and timestamp.
reduceResult(hex, raw) ==
    LET sent == IF IsStr(Get(raw, "sent")) THEN Get(raw, "sent") ELSE Str(<<>>)
        recv == IF IsStr(Get(raw, "recv")) THEN Get(raw, "recv") ELSE Str(<<>>)
        serverName == pickString(asRecord(raw), <<"server_name", "serverName", "sourceHost", "host">>)
        timestampRaw ==
            IF Get(raw, "time").t = "bigint" THEN Num(Get(raw, "time").v)
            ELSE pickNumber(asRecord(raw), <<"time", "timestamp">>)
        timestamp == IF IsNum(timestampRaw) THEN Trunc(timestampRaw) ELSE Undef
    IN  MkObj(<< <<"presentationHex", hex>>, <<"sent", sent>>, <<"recv", recv>>,
                 <<"serverName", serverName>>, <<"timestamp", timestamp>> >>)

VplThrow(message) ==
    /\ vplPc' = "thrown"
    /\ vplError' = message

VplCheckVerifyFn ==
    /\ vplPc = "entry"
    /\ IF verifyFnMissing(Get(vplArgs, "verifyPresentation"))
       THEN VplThrow(ErrVerifyFn)
       ELSE vplPc' = "checkKey" /\ UNCHANGED vplError
    /\ UNCHANGED <<vplArgs, presentationHex, rawResult, invocations, freeCalls, vplOut>>
    /\ UNCHANGED outsideVpl

VplCheckKey ==
    /\ vplPc = "checkKey"
    /\ IF notaryKeyMissing(Get(vplArgs, "notaryPublicKeyPem"))
       THEN VplThrow(ErrKey)
       ELSE vplPc' = "extractHex" /\ UNCHANGED vplError
    /\ UNCHANGED <<vplArgs, presentationHex, rawResult, invocations, freeCalls, vplOut>>
    /\ UNCHANGED outsideVpl

VplExtractHex ==
    /\ vplPc = "extractHex"
    /\ presentationHex' = extractPresentationHex(Get(vplArgs, "attestation"), 0)
    /\ IF ~Truthy(presentationHex')
       THEN VplThrow(ErrHex)
       ELSE vplPc' = "invoke" /\ UNCHANGED vplError
    /\ UNCHANGED <<vplArgs, rawResult, invocations, freeCalls, vplOut>>
    /\ UNCHANGED outsideVpl

\* await Promise.resolve(verifyPresentation(presentationHex, notaryPublicKeyPem))
VplInvoke ==
    /\ vplPc = "invoke"
    /\ invocations' = invocations + 1
    /\ \E outcome \in CollaboratorOutcomes :
          IF outcome = Threw
          THEN VplThrow(ErrCollaborator) /\ UNCHANGED rawResult
          ELSE vplPc' = "reduce" /\ rawResult' = outcome /\ UNCHANGED vplError
    /\ UNCHANGED <<vplArgs, presentationHex, freeCalls, vplOut>>
    /\ UNCHANGED outsideVpl

\* The reads of sent, recv, serverName and timestamp out of rawResult.
VplReduce ==
    /\ vplPc = "reduce"
    /\ IF \E i \in 1..Len(reducedKeys) : Get(rawResult, reducedKeys[i]) = Thrower
       THEN VplThrow(ErrGetter) /\ UNCHANGED vplOut
       ELSE /\ vplOut' = reduceResult(presentationHex, rawResult)
            /\ vplPc' = "free"
            /\ UNCHANGED vplError
    /\ UNCHANGED <<vplArgs, presentationHex, rawResult, invocations, freeCalls>>
    /\ UNCHANGED outsideVpl

\* if (rawResult && typeof rawResult.free === "function") rawResult.free(); return
VplFreeAndReturn ==
    /\ vplPc = "free"
    /\ freeCalls' = IF Truthy(rawResult) /\ Get(rawResult, "free") = Fn
                    THEN freeCalls + 1 ELSE freeCalls
    /\ vplPc' = "returned"
    /\ UNCHANGED <<vplArgs, presentationHex, rawResult, invocations, vplOut, vplError>>
    /\ UNCHANGED outsideVpl

VplStep ==
    \/ VplCheckVerifyFn
    \/ VplCheckKey
    \/ VplExtractHex
    \/ VplInvoke
    \/ VplReduce
    \/ VplFreeAndReturn

----------------------------------------------------------------------------
(* Specification SpecHost: hostMatchesAllowedSuffix over                   *)
(* parseAllowedHostSuffixes                                                *)

InitHost ==
    /\ pc = "hostMatches"
    /\ host \in HostInputs
    /\ allowedRaw \in AllowedRawInputs
    /\ hostMatch = Undef
    /\ ExpectedIdle
    /\ VplIdle
    /\ TransferIdle
    /\ HandlerIdle
    /\ CallIdle

CallHostMatches ==
    /\ pc = "hostMatches"
    /\ hostMatch' = Bool(hostMatchesAllowedSuffix(host, parseAllowedHostSuffixes(allowedRaw)))
    /\ pc' = "done"
    /\ UNCHANGED <<host, allowedRaw, expectedVars, vplVars, transferVars, handlerVars, callVars>>

NextHost == CallHostMatches

SpecHost == InitHost /\ [][NextHost]_vars

----------------------------------------------------------------------------
(* Specification SpecExpected: validateExpected                            *)

InitExpected ==
    /\ pc = "validateExpected"
    /\ expected \in ExpectedInputs
    /\ claim \in NormalizedInputs
    /\ errors = <<>>
    /\ HostIdle
    /\ VplIdle
    /\ TransferIdle
    /\ HandlerIdle
    /\ CallIdle

CallValidateExpected ==
    /\ pc = "validateExpected"
    /\ errors' = validateExpected(expected, claim)
    /\ pc' = "done"
    /\ UNCHANGED <<expected, claim, hostVars, vplVars, transferVars, handlerVars, callVars>>

NextExpected == CallValidateExpected

SpecExpected == InitExpected /\ [][NextExpected]_vars

----------------------------------------------------------------------------
(* Specification SpecVerify: verifyPresentationLocally on any arguments    *)

InitVerify ==
    /\ pc = "verifyPresentationLocally"
    /\ vplArgs \in VplArgInputs
    /\ vplPc = "entry"
    /\ presentationHex = Undef
    /\ rawResult = Absent
    /\ invocations = 0
    /\ freeCalls = 0
    /\ vplOut = Undef
    /\ vplError = <<>>
    /\ HostIdle
    /\ ExpectedIdle
    /\ TransferIdle
    /\ HandlerIdle
    /\ CallIdle

NextVerify == VplStep

SpecVerify == InitVerify /\ [][NextVerify]_vars

----------------------------------------------------------------------------
(* Specification SpecTransfers: extractRecentTransfers                     *)

InitTransfers ==
    /\ pc = "extractRecentTransfers"
    /\ \E list \in ItemLists :
          /\ trAttestation \in AttestationsOf(list)
          /\ trRecv \in TranscriptsOf(list)
    /\ trLimit \in LimitInputs
    /\ recent = <<>>
    /\ HostIdle
    /\ ExpectedIdle
    /\ VplIdle
    /\ HandlerIdle
    /\ CallIdle

CallExtractRecentTransfers ==
    /\ pc = "extractRecentTransfers"
    /\ recent' = extractRecentTransfers(trAttestation, trRecv, trLimit)
    /\ pc' = "done"
    /\ UNCHANGED <<trAttestation, trRecv, trLimit, hostVars, expectedVars, vplVars, handlerVars, callVars>>

NextTransfers == CallExtractRecentTransfers

SpecTransfers == InitTransfers /\ [][NextTransfers]_vars

----------------------------------------------------------------------------
(* Specification SpecExtract: extractPresentationHex                       *)

MaxLayers == 7

\* One more layer around a node: under a candidate key, under a candidate
\* key of meta, or as the JSON text of the node.
LayerKinds == {"data", "meta", "json"}

Wrap(kind, inner) ==
    CASE kind = "data" -> MkObj(<< <<"version", Str(<<"v1">>)>>, <<"data", inner>> >>)
      [] kind = "meta" -> MkObj(<< <<"meta", MkObj(<< <<"presentation", inner>> >>)>> >>)
      [] kind = "json" -> Str(Stringify(inner))

RECURSIVE Nest(_, _)
Nest(layers, leaf) ==
    IF layers = <<>> THEN leaf ELSE Wrap(Head(layers), Nest(Tail(layers), leaf))

\* The JSON text is the text of a mapping, and there is one such text at most.
LayerLists ==
    {layers \in UNION {[1..n -> LayerKinds] : n \in 0..MaxLayers} :
        /\ Cardinality({i \in 1..Len(layers) : layers[i] = "json"}) <= 1
        /\ Len(layers) > 0 => layers[Len(layers)] # "json"}

LeafInputs == {Str(HexText), Str(<<"0", "x", "z">>)}

InitExtract ==
    /\ pc = "extractPresentationHex"
    /\ \E layers \in LayerLists, leaf \in LeafInputs : callArgs = Nest(layers, leaf)
    /\ callResult = Absent
    /\ HostIdle
    /\ ExpectedIdle
    /\ VplIdle
    /\ TransferIdle
    /\ HandlerIdle

CallExtractPresentationHex ==
    /\ pc = "extractPresentationHex"
    /\ callResult' = extractPresentationHex(callArgs, 0)
    /\ pc' = "done"
    /\ UNCHANGED <<callArgs, hostVars, expectedVars, vplVars, transferVars, handlerVars>>

NextExtract == CallExtractPresentationHex

SpecExtract == InitExtract /\ [][NextExtract]_vars

----------------------------------------------------------------------------
(* lib.js and server.js: the operations of the request pipeline            *)

\* The text of a token sequence.
RECURSIVE Concat(_)
Concat(ts) == IF ts = <<>> THEN "" ELSE Head(ts) \o Concat(Tail(ts))

\* The own enumerable properties of a value under spread.
Entries(x) ==
    CASE x.t = "obj" -> x.v
      [] x.t = "arr" -> [i \in 1..Len(x.v) |-> <<Concat(IntToString(i - 1)), x.v[i]>>]
      [] OTHER -> <<>>

\* Properties written one after another: a later one of the same key takes
\* the place of the earlier one.
RECURSIVE SetKeys(_, _)
SetKeys(pairs, more) ==
    IF more = <<>> THEN pairs
    ELSE SetKeys(SetKey(pairs, Head(more)[1], Head(more)[2]), Tail(more))

\* { ...a, ...b }
Spread(a, b) == Obj(SetKeys(Entries(a), Entries(b)))

\* sha256Hex: "0x" and the digest, which stands for the text digested.
sha256Hex(ts) == Str(<<"0", "x", "sha256(" \o Concat(ts) \o ")">>)

\* Array.prototype.join: undefined and null give the empty text.
RECURSIVE Join(_, _)
Join(parts, sep) ==
    IF parts = <<>> THEN <<>>
    ELSE (IF Head(parts).t \in {"undef", "null"} THEN <<>> ELSE StringOf(Head(parts)))
            \o (IF Len(parts) > 1 THEN <<sep>> \o Join(Tail(parts), sep) ELSE <<>>)

buildWiseReceiptHash(normalized, attestation) ==
    LET attestationDigest == sha256Hex(Stringify(attestation))
    IN  sha256Hex(Join(<<Str(<<"wise">>), Get(normalized, "sourceHost"), Get(normalized, "transferId"),
                         Get(normalized, "payerRef"), Get(normalized, "amount"),
                         Str(StringOf(Trunc(NumberOf(Get(normalized, "timestamp"))))),
                         attestationDigest>>, "|"))

\* a ?? b ?? c ...
RECURSIVE CoalesceAll(_)
CoalesceAll(values) ==
    IF Len(values) = 1 THEN Head(values) ELSE Coalesce(Head(values), CoalesceAll(Tail(values)))

\* The five fields picked out of the merged view.
pickClaim(view) ==
    MkObj(<<
        <<"amount", pickString(view, <<"amount", "amountText", "transferAmount", "paymentAmount">>)>>,
        <<"timestamp", pickNumber(view, <<"timestamp", "transferTimestamp", "createdAtTs", "paidAt", "time">>)>>,
        <<"payerRef", pickString(view, <<"payerRef", "payer", "sender", "payerId", "accountHolder",
                                         "recipientText">>)>>,
        <<"transferId", pickString(view, <<"transferId", "paymentId", "transactionId", "transactionNumber",
                                           "transactionNo", "transaction_number", "id", "reference">>)>>,
        <<"sourceHost", pickString(view, <<"sourceHost", "host", "domain", "originHost", "server_name">>)>> >>)

\* The mutant of normalizeVerifierData: the root is spread over the section.
normalizeVerifierDataRootFirst(bag) ==
    pickClaim(Spread(asRecord(CoalesceAll(<<Get(bag, "claimData"), Get(bag, "extracted"),
                                            Get(bag, "normalized"), Get(bag, "data"),
                                            Get(bag, "fields")>>)), bag))

normalizeVerifierData(bag) ==
    pickClaim(Spread(bag, asRecord(CoalesceAll(<<Get(bag, "claimData"), Get(bag, "extracted"),
                                                 Get(bag, "normalized"), Get(bag, "data"),
                                                 Get(bag, "fields")>>))))

BrowserCaptureKind == <<"wise_browser_capture_v1">>

isBrowserCaptureAttestation(attestation) == Get(asRecord(attestation), "kind") = Str(BrowserCaptureKind)

notaryKeyNames ==
    <<"notaryPublicKeyPem", "notaryKeyPem", "notary_key_pem", "notaryPubKeyPem", "publicKeyPem">>

extractNotaryPublicKeyPem(attestation, envFallback) ==
    LET root == asRecord(attestation)
        meta == asRecord(Get(root, "meta"))
        key == pickString(root, notaryKeyNames)
        metaKey == pickString(meta, notaryKeyNames)
        fallback == Trim(StringOf(IF Truthy(envFallback) THEN envFallback ELSE Str(<<>>)))
    IN  IF Truthy(key) THEN key
        ELSE IF Truthy(metaKey) THEN metaKey
        ELSE IF fallback # <<>> THEN Str(fallback) ELSE Undef

\* new URL(value).toString(): a text is a URL when it starts with a scheme
\* and names a host; the URL of a bare origin is written with a final "/".
Schemes == {"https://", "http://"}

UrlToString(ts) ==
    IF Len(ts) >= 2 /\ ts[1] \in Schemes /\ ts[2] # "/"
    THEN Str(IF Len(ts) = 2 THEN ts \o <<"/">> ELSE ts)
    ELSE Threw

extractNotaryUrl(attestation) ==
    LET root == asRecord(attestation)
        meta == asRecord(Get(root, "meta"))
        value == Coalesce(pickString(meta, <<"notaryUrl", "notary_url", "notary">>),
                          pickString(root, <<"notaryUrl", "notary_url", "notary">>))
    IN  IF ~Truthy(value) \/ UrlToString(value.v) = Threw THEN Undef
        ELSE LET normalized == UrlToString(value.v).v
             IN  Str(IF EndsWith(normalized, <<"/">>) THEN SubSeq(normalized, 1, Len(normalized) - 1)
                     ELSE normalized)

extractPublicKeyFromNotaryInfo(info) ==
    pickString(asRecord(info), <<"publicKey", "public_key", "notaryPublicKeyPem", "notary_key_pem">>)

\* String(value || "").trim()
TextOf(value) == Trim(StringOf(IF Truthy(value) THEN value ELSE Str(<<>>)))

\* Twice a finite number, which is whole.
Twice(n) == 2 * n.v + (IF n.frac THEN (IF n.v < 0 THEN 0 - 1 ELSE 1) ELSE 0)

\* The tolerance, in seconds, of the timestamp match of a selected transfer.
SelectionSkewSeconds == 60

findMatchingRecentTransfer(recentTransfers, selectedTransfer) ==
    IF ~Truthy(selectedTransfer) \/ selectedTransfer.t \notin {"obj", "arr"} THEN Null
    ELSE
        LET sel == asRecord(selectedTransfer)
            transferId == TextOf(Get(sel, "transferId"))
            amount == TextOf(Get(sel, "amount"))
            payerRef == TextOf(Get(sel, "payerRef"))
            timestamp == NumberOf(Get(sel, "timestamp"))
            row(i) == asRecord(recentTransfers[i])
            sameId(i) ==
                /\ transferId # <<>>
                /\ TextOf(Get(row(i), "transferId")) = transferId
            sameTs(i) ==
                LET rowTs == NumberOf(Get(row(i), "timestamp"))
                IN  /\ IsNum(timestamp)
                    /\ IsNum(rowTs)
                    /\ Abs(Twice(rowTs) - Twice(timestamp)) <= 2 * SelectionSkewSeconds
            sameRest(i) ==
                /\ amount # <<>>
                /\ TextOf(Get(row(i), "amount")) = amount
                /\ \/ payerRef # <<>> /\ TextOf(Get(row(i), "payerRef")) = payerRef
                   \/ sameTs(i)
            byId == {i \in 1..Len(recentTransfers) : sameId(i)}
            byRest == {i \in 1..Len(recentTransfers) : sameRest(i)}
        IN  IF byId # {} THEN row(CHOOSE i \in byId : \A j \in byId : i <= j)
            ELSE IF byRest # {} THEN row(CHOOSE i \in byRest : \A j \in byRest : i <= j)
            ELSE Null

\* ALLOWED_HOST_SUFFIXES
ALLOWED_HOST_SUFFIXES == parseAllowedHostSuffixes(Get(env, "TLSN_ALLOWED_HOST_SUFFIXES"))

Texts(seqs) == Arr([i \in 1..Len(seqs) |-> Str(seqs[i])])

KeyTexts(names) == Arr([i \in 1..Len(names) |-> Str(<<names[i]>>)])

ErrMissingFields == <<"verifier output missing required Wise fields">>
ErrDomain == <<"sourceHost is not an allowed Wise domain">>
ErrExpected == <<"expected constraints mismatch">>

AllGates == <<"completeness", "domain", "expected">>

\* The mutant of missingFields: only an undefined timestamp is missing.
missingFieldsZeroPresent(normalized) ==
    LET missing(field) ==
            IF (IF field = "timestamp" THEN Get(normalized, field) = Undef
                ELSE ~Truthy(Get(normalized, field)))
            THEN << <<field, " missing">> >> ELSE <<>>
    IN  missing("amount") \o missing("timestamp") \o missing("payerRef") \o missing("transferId")
            \o missing("sourceHost")

missingFields(normalized) ==
    LET missing(field) == IF ~Truthy(Get(normalized, field)) THEN << <<field, " missing">> >> ELSE <<>>
    IN  missing("amount") \o missing("timestamp") \o missing("payerRef") \o missing("transferId")
            \o missing("sourceHost")

Rejected(error, details, availableKeys, evaluated) ==
    [ok |-> FALSE, status |-> 400, evaluated |-> evaluated,
     json |-> MkObj(<< <<"error", Str(error)>>, <<"details", Texts(details)>>,
                       <<"availableKeys", availableKeys>> >>)]

domainDetails(normalized) ==
    << <<"sourceHost=">> \o StringOf(Get(normalized, "sourceHost")),
       <<"allowed=">> \o Join([i \in 1..Len(ALLOWED_HOST_SUFFIXES) |-> Str(ALLOWED_HOST_SUFFIXES[i])], ",") >>

\* The mutant of gatesOf: the domain gate comes first.
gatesOfDomainFirst(normalized, request, availableKeys) ==
    LET missing == missingFields(normalized)
        expectedErrors == validateExpected(Get(request, "expected"), normalized)
    IN  IF ~hostMatchesAllowedSuffix(Get(normalized, "sourceHost"), ALLOWED_HOST_SUFFIXES)
        THEN Rejected(ErrDomain, domainDetails(normalized), availableKeys, <<"domain">>)
        ELSE IF Len(missing) > 0
        THEN Rejected(ErrMissingFields, missing, availableKeys, <<"domain", "completeness">>)
        ELSE IF Len(expectedErrors) > 0
        THEN Rejected(ErrExpected, expectedErrors, availableKeys, <<"domain", "completeness", "expected">>)
        ELSE [ok |-> TRUE, normalized |-> normalized, evaluated |-> <<"domain", "completeness", "expected">>]

\* The gates of normalizeAndValidate, on the normalized claim.
gatesOf(normalized, request, availableKeys) ==
    LET missing == missingFields(normalized)
        expectedErrors == validateExpected(Get(request, "expected"), normalized)
    IN  IF Len(missing) > 0
        THEN Rejected(ErrMissingFields, missing, availableKeys, <<"completeness">>)
        ELSE IF ~hostMatchesAllowedSuffix(Get(normalized, "sourceHost"), ALLOWED_HOST_SUFFIXES)
        THEN Rejected(ErrDomain, domainDetails(normalized), availableKeys, <<"completeness", "domain">>)
        ELSE IF Len(expectedErrors) > 0
        THEN Rejected(ErrExpected, expectedErrors, availableKeys, AllGates)
        ELSE [ok |-> TRUE, normalized |-> normalized, evaluated |-> AllGates]

normalizeAndValidate(bag, request, availableKeys) ==
    gatesOf(normalizeVerifierData(bag), request, availableKeys)

\* Math.max(1, Math.min(10, Math.trunc(Number(payload.recentCount) || 5)))
recentCountOf(request) == Num(clampLimit(Get(request, "recentCount")))

ErrSelectedNotFound == <<"selected transfer not found in recent transfers">>

\* The normalized claim as the 200 response shows it.
shownNormalized(normalized) ==
    MkObj(<< <<"amount", Get(normalized, "amount")>>,
             <<"timestamp", Trunc(Get(normalized, "timestamp"))>>,
             <<"payerRef", Get(normalized, "payerRef")>>,
             <<"transferId", Get(normalized, "transferId")>>,
             <<"sourceHost", Get(normalized, "sourceHost")>> >>)

\* The bag of the browser-capture branch.
browserCaptureBag(attestation, fallbackRow) ==
    Obj(SetKeys(Entries(attestation), <<
        <<"amount", Coalesce(Get(fallbackRow, "amount"), Get(attestation, "amount"))>>,
        <<"timestamp", Coalesce(Get(fallbackRow, "timestamp"), Get(attestation, "timestamp"))>>,
        <<"payerRef", Coalesce(Get(fallbackRow, "payerRef"), Get(attestation, "payerRef"))>>,
        <<"transferId", Coalesce(Get(fallbackRow, "transferId"), Get(attestation, "transferId"))>>,
        <<"sourceHost", Coalesce(Get(attestation, "sourceHost"), Str(WiseCom))>>,
        <<"verified", Bool(TRUE)>> >>))

\* The bag of the locally verified branch.
localBag(attestation, selectedTransfer, localVerification) ==
    LET baseSourceHost ==
            CoalesceAll(<<Get(localVerification, "serverName"), Get(attestation, "sourceHost"),
                          Get(attestation, "host")>>)
        baseTimestamp == Coalesce(Get(localVerification, "timestamp"), Get(attestation, "timestamp"))
        selected ==
            IF Truthy(selectedTransfer)
            THEN << <<"amount", Coalesce(Get(selectedTransfer, "amount"), Get(attestation, "amount"))>>,
                    <<"timestamp", Coalesce(Get(selectedTransfer, "timestamp"), baseTimestamp)>>,
                    <<"payerRef", Coalesce(Get(selectedTransfer, "payerRef"), Get(attestation, "payerRef"))>>,
                    <<"transferId", Coalesce(Get(selectedTransfer, "transferId"),
                                             Get(attestation, "transferId"))>> >>
            ELSE <<>>
    IN  Obj(SetKeys(Entries(attestation), selected \o <<
            <<"sourceHost", baseSourceHost>>,
            <<"timestamp", Coalesce(Get(selectedTransfer, "timestamp"), baseTimestamp)>>,
            <<"verified", Bool(TRUE)>>,
            <<"sent", Get(localVerification, "sent")>>,
            <<"recv", Get(localVerification, "recv")>> >>))

----------------------------------------------------------------------------
(* The requests                                                            *)

Forged == <<"0", "x", "f", "0", "0", "d">>
NotaryUrl == <<"https://", "notary.example", "/">>

ClaimPairs ==
    << <<"amount", Str(<<"1", "0", "0">>)>>, <<"timestamp", Num(5000)>>,
       <<"payerRef", Str(<<"alice">>)>>, <<"transferId", Str(<<"tx-1">>)>> >>

ProofPairs == << <<"presentation", Str(HexText)>>, <<"notaryPublicKeyPem", Str(Pem)>> >>

AttestationInputs ==
    { Absent,
      \* browser captures
      MkObj(<< <<"kind", Str(BrowserCaptureKind)>> >> \o ClaimPairs),
      MkObj(<< <<"kind", Str(BrowserCaptureKind)>>, <<"sourceHost", Str(EvilWiseCom)>> >> \o ClaimPairs),
      MkObj(<< <<"kind", Str(BrowserCaptureKind)>>, <<"transfers", Arr(<<TransferItem(1)>>)>> >>),
      \* presentations
      MkObj(ProofPairs \o ClaimPairs),
      MkObj(ProofPairs \o ClaimPairs \o << <<"wiseReceiptHash", Str(Forged)>> >>),
      MkObj(ProofPairs \o Tail(ClaimPairs)),
      MkObj(ProofPairs \o << <<"amount", Str(<<"1", "0", "0">>)>>, <<"timestamp", Num(0)>>,
                             <<"transferId", Str(<<"tx-1">>)>> >>),
      MkObj(ProofPairs \o ClaimPairs \o << <<"claimData", MkObj(<< <<"amount", Str(<<"9", "9", "9">>)>> >>)>> >>),
      MkObj(ProofPairs \o ClaimPairs \o << <<"claimData", MkObj(<< <<"sourceHost", Str(WiseCom)>> >>)>> >>),
      MkObj(<< <<"presentation", Str(HexText)>>,
               <<"meta", MkObj(<< <<"notaryUrl", Str(NotaryUrl)>> >>)>> >> \o ClaimPairs),
      MkObj(<< <<"presentation", Str(HexText)>> >> \o ClaimPairs),
      MkObj(<< <<"notaryPublicKeyPem", Str(Pem)>> >> \o ClaimPairs),
      Str(<<"{", Quote, "proof", Quote, ":", Quote>> \o HexText \o <<Quote, "}">>) }

HandlerExpectedInputs ==
    { Absent,
      MkObj(<< <<"amount", Str(<<"1", "0", "0">>)>>, <<"transferId", Str(<<"tx-1">>)>>,
               <<"timestamp", Num(5000)>> >>),
      MkObj(<< <<"amount", Str(<<"1", "0">>)>>, <<"payerRef", Str(<<"p", "1">>)>> >>),
      MkObj(<< <<"amount", Str(<<"9", "9", "9">>)>>, <<"payerRef", Str(<<"bob">>)>> >>) }

SelectedInputs ==
    { Absent,
      MkObj(<< <<"transferId", Str(<<"t", "1">>)>> >>),
      MkObj(<< <<"transferId", Str(<<"t", "9">>)>> >>),
      MkObj(<< <<"amount", Str(<<"1", "0">>)>>, <<"timestamp", Num(31)>> >>) }

\* The bodies readJsonBody yields, and Threw for the body it rejects.
BodyInputs ==
    {MkObj(<< <<"attestation", a>>, <<"expected", e>>, <<"selectedTransfer", s>> >>) :
        a \in AttestationInputs, e \in HandlerExpectedInputs, s \in SelectedInputs}
        \cup {MkObj(<< <<"attestation", MkObj(ProofPairs \o ClaimPairs)>>, <<"recentCount", Str(<<"2">>)>> >>),
              Threw}

EnvInputs ==
    { Obj(<<>>),
      MkObj(<< <<"TLSN_ALLOWED_HOST_SUFFIXES", Str(<<Space, "W">> \o Tail(WiseCom) \o <<",">>)>>,
               <<"TLSN_NOTARY_PUBLIC_KEY_PEM", Str(Pem)>> >>) }

----------------------------------------------------------------------------
(* server.js: handleVerifyWiseAttestation, await by await                  *)

ErrAttestationRequired == <<"attestation is required">>
ErrResolveKey == <<"failed to resolve notary public key">>
ErrNoNotaryKey == <<"missing notary key; include attestation.notaryUrl or set TLSN_NOTARY_PUBLIC_KEY_PEM">>
ErrLocalVerification == <<"local tlsn verification failed">>
ErrInternal == <<"internal error">>
ErrInvalidBody == <<"invalid json body">>
ErrFetchFailed == <<"notary info fetch failed: 500">>
ErrNoKeyInInfo == <<"notary info response missing public key">>

outsideHandler == <<pc, hostVars, expectedVars, transferVars, callVars>>

attestationRaw == asRecord(Get(payload, "attestation"))

Respond(status, json) ==
    /\ response' = [status |-> status, json |-> json]
    /\ hPc' = "responded"

ErrorBody(error) == MkObj(<< <<"error", Str(error)>> >>)

ErrorBodyWith(error, detail) == MkObj(<< <<"error", Str(error)>>, <<"details", Texts(<<detail>>)>> >>)

Accepted(normalized, wiseReceiptHash, recentTransfers, verifier) ==
    [status |-> 200,
     json |-> MkObj(<< <<"verified", Bool(TRUE)>>,
                       <<"wiseReceiptHash", wiseReceiptHash>>,
                       <<"normalized", shownNormalized(normalized)>>,
                       <<"recentTransfers", Arr(recentTransfers)>>,
                       <<"verifier", verifier>> >>)]

\* A request arrives and its body is read.
AcceptRequest ==
    /\ hPc = "idle"
    /\ payload' \in BodyInputs
    /\ hPc' = "start"
    /\ UNCHANGED <<env, notaryKeyCache, rawBag, gates, response, vplVars, outsideHandler>>

\* readJsonBody rejects: the server's catch answers 500.
RejectUnreadableBody ==
    /\ hPc = "start"
    /\ payload = Threw
    /\ Respond(500, MkObj(<< <<"error", Str(ErrInternal)>>, <<"detail", Str(ErrInvalidBody)>> >>))
    /\ UNCHANGED <<env, notaryKeyCache, payload, rawBag, gates, vplVars, outsideHandler>>

RejectMissingAttestation ==
    /\ hPc = "start"
    /\ payload # Threw
    /\ ~Truthy(Get(payload, "attestation"))
    /\ Respond(400, ErrorBody(ErrAttestationRequired))
    /\ UNCHANGED <<env, notaryKeyCache, payload, rawBag, gates, vplVars, outsideHandler>>

\* What a branch leaves behind when it answers.
Settle(handled) ==
    /\ rawBag' = handled.rawBag
    /\ gates' = handled.gates
    /\ response' = handled.response
    /\ hPc' = "responded"

SelectionRejected ==
    [rawBag |-> Absent, gates |-> <<>>,
     response |-> [status |-> 400, json |-> ErrorBody(ErrSelectedNotFound)]]

browserVerifier(availableKeys, selectedTransfer) ==
    MkObj(<< <<"status", Str(<<"ok-browser-capture">>)>>,
             <<"availableKeys", availableKeys>>,
             <<"tlsVerified", Bool(FALSE)>>,
             <<"selectedMatched", Bool(Truthy(selectedTransfer))>>,
             <<"warning", Str(<<"browser capture mode: TLS cryptographic verification is bypassed">>)>> >>)

\* The browser-capture branch once the gates have been passed or not.
browserCaptureChecked(request, recentTransfers, selectedTransfer, bag, checked) ==
    [rawBag |-> bag, gates |-> checked.evaluated,
     response |->
        IF checked.ok
        THEN Accepted(checked.normalized,
                      buildWiseReceiptHash(checked.normalized, Get(request, "attestation")),
                      recentTransfers, browserVerifier(KeyTexts(Keys(bag)), selectedTransfer))
        ELSE [status |-> checked.status, json |-> checked.json]]

browserCaptureBagged(request, recentTransfers, selectedTransfer, bag) ==
    browserCaptureChecked(request, recentTransfers, selectedTransfer, bag,
                          normalizeAndValidate(bag, request, KeyTexts(Keys(bag))))

browserCaptureSelected(request, recentTransfers, selectedTransfer) ==
    IF Truthy(Get(request, "selectedTransfer")) /\ ~Truthy(selectedTransfer)
    THEN SelectionRejected
    ELSE browserCaptureBagged(request, recentTransfers, selectedTransfer,
            browserCaptureBag(asRecord(Get(request, "attestation")),
                              Coalesce(selectedTransfer, asRecord(Get(request, "selectedTransfer")))))

browserCaptureScanned(request, recentTransfers) ==
    browserCaptureSelected(request, recentTransfers,
                           findMatchingRecentTransfer(recentTransfers, Get(request, "selectedTransfer")))

\* The browser-capture branch, from the scan of the transfers to the response.
browserCapture(request) ==
    browserCaptureScanned(request,
        extractRecentTransfers(asRecord(Get(request, "attestation")), Str(<<>>), recentCountOf(request)))

HandleBrowserCapture ==
    /\ hPc = "start"
    /\ payload # Threw
    /\ Truthy(Get(payload, "attestation"))
    /\ isBrowserCaptureAttestation(attestationRaw)
    /\ Settle(browserCapture(payload))
    /\ UNCHANGED <<env, notaryKeyCache, payload, vplVars, outsideHandler>>

\* verifyPresentationLocally({attestation, notaryPublicKeyPem, verifyPresentation}) is called.
StartVerification(key) ==
    /\ vplArgs' = MkObj(<< <<"attestation", Get(payload, "attestation")>>,
                           <<"notaryPublicKeyPem", key>>, <<"verifyPresentation", Fn>> >>)
    /\ vplPc' = "entry"
    /\ hPc' = "verifying"
    /\ UNCHANGED <<presentationHex, rawResult, invocations, freeCalls, vplOut, vplError, response>>

\* resolveNotaryPublicKeyPem, up to its fetch.
ResolveNotaryKey ==
    /\ hPc = "start"
    /\ payload # Threw
    /\ Truthy(Get(payload, "attestation"))
    /\ ~isBrowserCaptureAttestation(attestationRaw)
    /\ LET direct == extractNotaryPublicKeyPem(Get(payload, "attestation"),
                                               Get(env, "TLSN_NOTARY_PUBLIC_KEY_PEM"))
           notaryUrl == extractNotaryUrl(Get(payload, "attestation"))
       IN  IF Truthy(direct) THEN StartVerification(direct)
           ELSE IF ~Truthy(notaryUrl)
           THEN Respond(400, ErrorBody(ErrNoNotaryKey)) /\ UNCHANGED vplVars
           ELSE IF HasKey(notaryKeyCache, Concat(notaryUrl.v))
           THEN StartVerification(Get(notaryKeyCache, Concat(notaryUrl.v)))
           ELSE hPc' = "fetch" /\ UNCHANGED <<vplVars, response>>
    /\ UNCHANGED <<env, notaryKeyCache, payload, rawBag, gates, outsideHandler>>

\* What GET notaryUrl/info can bring: a network error, a status that is
\* not ok, a body without a key, a body with the key.
FetchOutcomes == {Threw, Num(500), Obj(<<>>), MkObj(<< <<"publicKey", Str(Pem)>> >>)}

\* resolveNotaryPublicKeyPem, from its fetch on.
FetchNotaryInfo ==
    /\ hPc = "fetch"
    /\ \E info \in FetchOutcomes :
          LET key == extractPublicKeyFromNotaryInfo(info)
          IN  IF info = Threw \/ info.t = "num"
              THEN /\ Respond(400, ErrorBodyWith(ErrResolveKey, ErrFetchFailed))
                   /\ UNCHANGED <<vplVars, notaryKeyCache>>
              ELSE IF ~Truthy(key)
              THEN /\ Respond(400, ErrorBodyWith(ErrResolveKey, ErrNoKeyInInfo))
                   /\ UNCHANGED <<vplVars, notaryKeyCache>>
              ELSE /\ notaryKeyCache' =
                        Obj(SetKey(notaryKeyCache.v, Concat(extractNotaryUrl(Get(payload, "attestation")).v), key))
                   /\ StartVerification(key)
    /\ UNCHANGED <<env, payload, rawBag, gates, outsideHandler>>

RejectVerificationFailed ==
    /\ hPc = "verifying"
    /\ vplPc = "thrown"
    /\ Respond(400, ErrorBodyWith(ErrLocalVerification, vplError))
    /\ UNCHANGED <<env, notaryKeyCache, payload, rawBag, gates, vplVars, outsideHandler>>

localVerifier(availableKeys, selectedTransfer, localVerification) ==
    MkObj(<< <<"status", Str(<<"ok-local">>)>>,
             <<"availableKeys", availableKeys>>,
             <<"serverName", Coalesce(Get(localVerification, "serverName"), Null)>>,
             <<"selectedMatched", Bool(Truthy(selectedTransfer))>> >>)

\* raw.wiseReceiptHash when it is a text that starts with 0x, else the hash built.
wiseReceiptHashOf(bag, normalized, attestation) ==
    IF IsStr(Get(bag, "wiseReceiptHash")) /\ StartsWith(Get(bag, "wiseReceiptHash").v, <<"0", "x">>)
    THEN Get(bag, "wiseReceiptHash")
    ELSE buildWiseReceiptHash(normalized, attestation)

\* The locally verified branch once the gates have been passed or not.
verifiedChecked(request, localVerification, recentTransfers, selectedTransfer, bag, checked) ==
    [rawBag |-> bag, gates |-> checked.evaluated,
     response |->
        IF checked.ok
        THEN Accepted(checked.normalized,
                      wiseReceiptHashOf(bag, checked.normalized, Get(request, "attestation")),
                      recentTransfers,
                      localVerifier(KeyTexts(Keys(bag)), selectedTransfer, localVerification))
        ELSE [status |-> checked.status, json |-> checked.json]]

verifiedBagged(request, localVerification, recentTransfers, selectedTransfer, bag) ==
    verifiedChecked(request, localVerification, recentTransfers, selectedTransfer, bag,
                    normalizeAndValidate(bag, request, KeyTexts(Keys(bag))))

verifiedSelected(request, localVerification, recentTransfers, selectedTransfer) ==
    IF Truthy(Get(request, "selectedTransfer")) /\ ~Truthy(selectedTransfer)
    THEN SelectionRejected
    ELSE verifiedBagged(request, localVerification, recentTransfers, selectedTransfer,
            localBag(asRecord(Get(request, "attestation")), selectedTransfer, localVerification))

verifiedScanned(request, localVerification, recentTransfers) ==
    verifiedSelected(request, localVerification, recentTransfers,
                     findMatchingRecentTransfer(recentTransfers, Get(request, "selectedTransfer")))

\* The locally verified branch, from the scan of the transfers to the response.
verified(request, localVerification) ==
    verifiedScanned(request, localVerification,
        extractRecentTransfers(asRecord(Get(request, "attestation")), Get(localVerification, "recv"),
                               recentCountOf(request)))

HandleVerified ==
    /\ hPc = "verifying"
    /\ vplPc = "returned"
    /\ Settle(verified(payload, vplOut))
    /\ UNCHANGED <<env, notaryKeyCache, payload, vplVars, outsideHandler>>

\* The request is over: what it held is gone, the cache stays.
FinishRequest ==
    /\ hPc = "responded"
    /\ hPc' = "idle"
    /\ payload' = Undef
    /\ rawBag' = Absent
    /\ gates' = <<>>
    /\ response' = Absent
    /\ vplArgs' = Undef
    /\ vplPc' = "idle"
    /\ presentationHex' = Undef
    /\ rawResult' = Absent
    /\ invocations' = 0
    /\ freeCalls' = 0
    /\ vplOut' = Undef
    /\ vplError' = <<>>
    /\ UNCHANGED <<env, notaryKeyCache, outsideHandler>>

----------------------------------------------------------------------------
(* Specification Spec: the requests of POST /verify-wise-attestation       *)

Init ==
    /\ pc = "handleVerifyWiseAttestation"
    /\ env \in EnvInputs
    /\ notaryKeyCache = Obj(<<>>)
    /\ payload = Undef
    /\ hPc = "idle"
    /\ rawBag = Absent
    /\ gates = <<>>
    /\ response = Absent
    /\ VplIdle
    /\ HostIdle
    /\ ExpectedIdle
    /\ TransferIdle
    /\ CallIdle

Next ==
    \/ AcceptRequest
    \/ RejectUnreadableBody
    \/ RejectMissingAttestation
    \/ HandleBrowserCapture
    \/ ResolveNotaryKey
    \/ FetchNotaryInfo
    \/ VplCheckVerifyFn
    \/ VplCheckKey
    \/ VplExtractHex
    \/ VplInvoke
    \/ VplReduce
    \/ VplFreeAndReturn
    \/ RejectVerificationFailed
    \/ HandleVerified
    \/ FinishRequest

Spec == Init /\ [][Next]_vars

----------------------------------------------------------------------------
(* Specification SpecNormalize: normalizeVerifierData                      *)

SectionNames == <<"claimData", "extracted", "normalized", "data", "fields">>

RootInputs ==
    {MkObj(<< <<"amount", a>>, <<"timestamp", ts>>, <<"payerRef", Str(<<"alice">>)>>,
              <<"transferId", Str(<<"tx-1">>)>>, <<"sourceHost", h>> >>) :
        a \in {Str(<<"1", "0", "0">>), Absent},
        ts \in {Num(5000), Absent},
        h \in {Str(ApiWiseCom), Absent}}

SectionInputs ==
    { MkObj(<< <<"amount", Str(<<"9", "9", "9">>)>> >>),
      MkObj(<< <<"amount", Str(<<Space, "7", Space>>)>>, <<"timestamp", Num(6000)>>,
               <<"sourceHost", Str(EvilWiseCom)>>, <<"payerRef", Str(<<"bob">>)>> >>),
      MkObj(<< <<"amount", Null>>, <<"transferId", Str(<<"tx-2">>)>> >>),
      Obj(<<>>) }

\* A root with a section under one name and, under another name, a section,
\* null, a text or nothing.
BagInputs ==
    {Obj(SetKeys(root.v, Present(<< <<SectionNames[i], section>>, <<SectionNames[j], other>> >>))) :
        root \in RootInputs, i \in 1..Len(SectionNames), section \in SectionInputs,
        j \in 1..Len(SectionNames), other \in SectionInputs \cup {Null, Str(<<"x">>), Absent}}

InitNormalize ==
    /\ pc = "normalizeVerifierData"
    /\ callArgs \in BagInputs
    /\ callResult = Absent
    /\ HostIdle
    /\ ExpectedIdle
    /\ VplIdle
    /\ TransferIdle
    /\ HandlerIdle

CallNormalizeVerifierData ==
    /\ pc = "normalizeVerifierData"
    /\ callResult' = normalizeVerifierData(callArgs)
    /\ pc' = "done"
    /\ UNCHANGED <<callArgs, hostVars, expectedVars, vplVars, transferVars, handlerVars>>

NextNormalize == CallNormalizeVerifierData

SpecNormalize == InitNormalize /\ [][NextNormalize]_vars

----------------------------------------------------------------------------
(* Specification SpecReceipt: buildWiseReceiptHash, called for two claims  *)
(* and one attestation                                                     *)

TransferIdTexts == {<<"a">>, <<"a", "|", "b">>, <<"tx-1">>}
PayerRefTexts == {<<"c">>, <<"b", "|", "c">>, <<"alice">>}

\* Complete normalized claims: trimmed texts that are not empty and a
\* finite timestamp that is not 0.
ReceiptClaims ==
    {MkObj(<< <<"amount", Str(rest[2])>>, <<"timestamp", rest[3]>>, <<"payerRef", Str(payer)>>,
              <<"transferId", Str(id)>>, <<"sourceHost", Str(rest[1])>> >>) :
        id \in TransferIdTexts, payer \in PayerRefTexts,
        rest \in { <<WiseCom, <<"1", "0", "0">>, Num(5000)>>,
                   <<ApiWiseCom, <<"1", "0", "0">>, Num(5000)>>,
                   <<WiseCom, <<"1", "0">>, Frac(5000)>>,
                   <<WiseCom, <<"1", "0", "0">>, Frac(5000)>>,
                   <<WiseCom, <<"1", "0", "0">>, Num(5001)>> }}

ReceiptAttestations == {MkObj(ProofPairs), MkObj(ProofPairs \o ClaimPairs)}

InitReceipt ==
    /\ pc = "buildWiseReceiptHash"
    /\ callArgs \in ReceiptClaims \X ReceiptClaims \X ReceiptAttestations
    /\ callResult = Absent
    /\ HostIdle
    /\ ExpectedIdle
    /\ VplIdle
    /\ TransferIdle
    /\ HandlerIdle

CallBuildWiseReceiptHash ==
    /\ pc = "buildWiseReceiptHash"
    /\ callResult' = <<buildWiseReceiptHash(callArgs[1], callArgs[3]),
                       buildWiseReceiptHash(callArgs[2], callArgs[3])>>
    /\ pc' = "done"
    /\ UNCHANGED <<callArgs, hostVars, expectedVars, vplVars, transferVars, handlerVars>>

NextReceipt == CallBuildWiseReceiptHash

SpecReceipt == InitReceipt /\ [][NextReceipt]_vars

----------------------------------------------------------------------------
(* C1: every response with verified: true comes, within its request, after *)
(* a call of the verification collaborator that returned without throwing, *)
(* and the domain and expected gates are evaluated only after that.        *)

CollaboratorReturned == invocations >= 1 /\ rawResult # Absent

SaysVerified == response # Absent /\ Get(response.json, "verified") = Bool(TRUE)

C1_VerifiedAfterVerification ==
    /\ SaysVerified => CollaboratorReturned
    /\ gates # <<>> => CollaboratorReturned

----------------------------------------------------------------------------
(* C2: in every 200 response, wiseReceiptHash is what buildWiseReceiptHash *)
(* computes from the response's normalized claim and the request's         *)
(* attestation, a 0x-prefixed digest, and never anything else.             *)

IsAccepted == response # Absent /\ response.status = 200

C2_HashIsBuilt ==
    IsAccepted =>
        /\ Get(response.json, "wiseReceiptHash") =
              buildWiseReceiptHash(Get(response.json, "normalized"), Get(payload, "attestation"))
        /\ StartsWith(Get(response.json, "wiseReceiptHash").v, <<"0", "x">>)

----------------------------------------------------------------------------
(* C3: the gates come in the order completeness, domain allow-list,        *)
(* expected constraints; a request is rejected with the error of the first *)
(* gate that fails and the later gates are not evaluated; a 200 response   *)
(* is produced only when the five claim fields are present, sourceHost     *)
(* matches the allow-list and validateExpected returned the empty list.    *)

ClaimFields == {"amount", "timestamp", "payerRef", "transferId", "sourceHost"}

GatedClaim == normalizeVerifierData(rawBag)

Complete == \A f \in ClaimFields : Truthy(Get(GatedClaim, f))

HostAllowed == hostMatchesAllowedSuffix(Get(GatedClaim, "sourceHost"), ALLOWED_HOST_SUFFIXES)

ExpectedMet == validateExpected(Get(payload, "expected"), GatedClaim) = <<>>

RejectedWith(error, evaluated) ==
    /\ response.status = 400
    /\ Get(response.json, "error") = Str(error)
    /\ gates = evaluated

C3_GateOrder ==
    /\ (hPc = "responded" /\ rawBag # Absent) =>
          /\ ~Complete => RejectedWith(ErrMissingFields, <<"completeness">>)
          /\ (Complete /\ ~HostAllowed) => RejectedWith(ErrDomain, <<"completeness", "domain">>)
          /\ (Complete /\ HostAllowed /\ ~ExpectedMet) =>
                RejectedWith(ErrExpected, <<"completeness", "domain", "expected">>)
          /\ (Complete /\ HostAllowed /\ ExpectedMet) => response.status = 200
    /\ IsAccepted =>
          /\ rawBag # Absent /\ Complete /\ HostAllowed /\ ExpectedMet
          /\ gates = <<"completeness", "domain", "expected">>
          /\ \A f \in ClaimFields : Get(Get(response.json, "normalized"), f) \notin {Undef, Null, NaN}

\* A claim without its amount, from a host that is not allowed, against
\* expected constraints it does not meet: the answer names the missing
\* field, and nothing of the domain or of the constraints.
C3_Witness ==
    /\ hPc = "responded"
    /\ rawBag # Absent
    /\ ~Complete
    /\ Truthy(Get(GatedClaim, "sourceHost"))
    /\ ~HostAllowed
    /\ ~ExpectedMet
    /\ RejectedWith(ErrMissingFields, <<"completeness">>)
    /\ Get(response.json, "details") = Texts(<< <<"amount", " missing">> >>)

----------------------------------------------------------------------------
(* C6: for every limit a caller can pass, extractRecentTransfers returns   *)
(* at most clamp(limit, 1, 10) records, and at most 5 when the limit is    *)
(* omitted.  (A limit that is no number has no clamp: the hard bound 10 is *)
(* what is asked of it.)                                                   *)

ClaimedBound(limit) ==
    IF limit = Undef THEN 5
    ELSE IF IsNum(NumberOf(limit)) THEN Max(1, Min(10, NumberOf(limit).v))
    ELSE 10

C6_LengthWithinClamp == pc = "done" => Len(recent) <= ClaimedBound(trLimit)

----------------------------------------------------------------------------
(* C7: no transfer item of the input is represented by more than one       *)
(* record of the result: a record occurs in the result at most as often as *)
(* there are items of the input (in the attestation, each reached once     *)
(* from its top, and in the bodies of the transcript's sections) that      *)
(* normalize to it.                                                        *)

RecordsOf(visits) ==
    LET recs == [k \in 1..Len(visits) |-> normalizeTransferItem(visits[k].item)]
    IN  [k \in 1..Len(visits) |-> recs[k]]

SectionBodies(recv) ==
    ParsedBodies(AddSections(<<>>, SplitBlank(StringOf(IF Truthy(recv) THEN recv ELSE Str(<<>>)), 1)))

InputItemVisits ==
    visitsOfRoots(<<asRecord(trAttestation)>> \o SectionBodies(trRecv), 0)

Occurrences(seq, x) == Cardinality({k \in 1..Len(seq) : seq[k] = x})

C7_NoItemTwice ==
    pc = "done" =>
        \A k \in 1..Len(recent) :
            Occurrences(recent, recent[k]) <= Occurrences(RecordsOf(InputItemVisits), recent[k])

----------------------------------------------------------------------------
(* C8: the records come in scan order (the attestation, its claimData,     *)
(* data and fields, then the transcript bodies; arrays depth first; items  *)
(* in array order), first occurrence of a key kept, and the scan stops at  *)
(* the limit: the result for limit n is the first n records of the result  *)
(* for any larger limit, and the six transfers of a transcript body with   *)
(* limit 5 give the first five, in order, with their ids.                  *)

ClaimedRoots ==
    (IF Len(asRecord(trAttestation).v) > 0
     THEN <<asRecord(trAttestation), asRecord(Get(trAttestation, "claimData")),
            asRecord(Get(trAttestation, "data")), asRecord(Get(trAttestation, "fields"))>>
     ELSE <<>>) \o extractJsonBodiesFromRecv(trRecv)

\* The records of the first visit of each key, in scan order.
FirstRecords ==
    LET visits == visitsOfRoots(ClaimedRoots, 0)
        recs == RecordsOf(visits)
        keyOf(k) == dedupKey(recs[k], visits[k])
        firsts == {k \in 1..Len(visits) :
                     /\ recs[k] # Undef
                     /\ \A j \in 1..(k - 1) : recs[j] = Undef \/ keyOf(j) # keyOf(k)}
    IN  [n \in 1..Cardinality(firsts) |->
            recs[CHOOSE k \in firsts : Cardinality({j \in firsts : j <= k}) = n]]

Take(seq, n) == SubSeq(seq, 1, Min(n, Len(seq)))

WholeLimits == {1, 2, 5, 6, 10, 12}

SixTransfersTranscript ==
    Str(HttpHeader \o <<NL, NL>> \o Stringify(MkObj(<< <<"transactions", Arr(SixTransfers)>> >>)))

TransferIds(recs) == [k \in 1..Len(recs) |-> Get(recs[k], "transferId").v]

C8_ScanOrderPrefix ==
    pc = "done" =>
        /\ \A n \in WholeLimits :
              trLimit = Num(n) =>
                /\ recent = Take(FirstRecords, Min(n, 10))
                /\ \A m \in WholeLimits :
                      m > n => recent = Take(extractRecentTransfers(trAttestation, trRecv, Num(m)), n)
        /\ (trAttestation = Obj(<<>>) /\ trRecv = SixTransfersTranscript /\ trLimit = Num(5)) =>
              TransferIds(recent) = <<<<"t", "1">>, <<"t", "2">>, <<"t", "3">>, <<"t", "4">>, <<"t", "5">>>>

\* Six transfers in the transcript, the same six in the attestation with
\* the first of them last: with limit 5 the attestation's order decides.
C8_Witness ==
    /\ pc = "done"
    /\ trRecv = SixTransfersTranscript
    /\ trAttestation =
          MkObj(<< <<"fields", MkObj(<< <<"rows", Arr(Tail(SixTransfers))>> >>)>>,
                   <<"claimData", MkObj(<< <<"rows", Arr(<<Head(SixTransfers)>>)>> >>)>> >>)
    /\ trLimit = Num(5)
    /\ TransferIds(recent) = <<<<"t", "2">>, <<"t", "3">>, <<"t", "4">>, <<"t", "5">>, <<"t", "6">>>>

----------------------------------------------------------------------------
(* C9: the host matches iff, trimmed and lower-cased, it equals an         *)
(* allow-listed suffix s or is some prefix followed by "." and s; a host   *)
(* that ends with s without the separating dot does not match through s.   *)

NormalizedHost == ToLowerCase(Trim(IF host = Undef THEN <<>> ELSE host.v))

AllowList == parseAllowedHostSuffixes(allowedRaw)

DotSuffixOf(h, s) ==
    \E k \in 1..Len(h) : h[k] = "." /\ SubSeq(h, k + 1, Len(h)) = s

C9_SuffixMatch ==
    pc = "done" =>
        (hostMatch.v <=>
            \E i \in 1..Len(AllowList) :
                NormalizedHost = AllowList[i] \/ DotSuffixOf(NormalizedHost, AllowList[i]))

\* evilwise.com against the default allow-list is refused.
C9_Witness ==
    /\ pc = "done"
    /\ host = Str(EvilWiseCom)
    /\ allowedRaw = Undef
    /\ hostMatch = Bool(FALSE)

----------------------------------------------------------------------------
(* C10: validateExpected reports an amount mismatch iff expected.amount    *)
(* was supplied, expected.amount and the normalized amount are both        *)
(* purely-digit strings, and the two strings differ; otherwise the amount  *)
(* check adds no error.                                                    *)

AmountMismatchPrefix == <<"amount mismatch: expected=">>

HasAmountError == \E i \in 1..Len(errors) : StartsWith(errors[i], AmountMismatchPrefix)

PurelyDigits(x) == IsStr(x) /\ IsDigits(x.v)

C10_AmountMismatchIff ==
    (pc = "done" /\ expected.t = "obj") =>
        (HasAmountError <=>
            /\ HasKey(expected, "amount")
            /\ PurelyDigits(Get(expected, "amount"))
            /\ PurelyDigits(Get(claim, "amount"))
            /\ Get(expected, "amount").v # Get(claim, "amount").v)

----------------------------------------------------------------------------
(* C4: when the collaborator has returned a result that exposes a free     *)
(* function, free is called exactly once on every exit path of             *)
(* verifyPresentationLocally, the return and a failure in a later step,    *)
(* and only once the fields have been read out of the result.              *)

VplExited == vplPc \in {"returned", "thrown"}

ExposesFree == rawResult # Absent /\ Truthy(rawResult) /\ Get(rawResult, "free") = Fn

C4_FreeExactlyOnce ==
    /\ (VplExited /\ ExposesFree) => freeCalls = 1
    /\ (VplExited /\ rawResult # Absent /\ ~ExposesFree) => freeCalls = 0
    /\ freeCalls > 0 => vplOut # Undef

----------------------------------------------------------------------------
(* C5: verifyPresentationLocally checks, in this order, that the verify    *)
(* function is present, that the notary key is a non-empty text and that a *)
(* presentation hex can be extracted; the first check that fails throws    *)
(* its own error, and when one fails the collaborator is never invoked.    *)

FnAbsent == Get(vplArgs, "verifyPresentation").t # "fn"

KeyNotText ==
    ~(IsStr(Get(vplArgs, "notaryPublicKeyPem")) /\ Get(vplArgs, "notaryPublicKeyPem").v # <<>>)

NoHex == extractPresentationHex(Get(vplArgs, "attestation"), 0) = Undef

C5_Preconditions ==
    /\ Cardinality({ErrVerifyFn, ErrKey, ErrHex}) = 3
    /\ (FnAbsent \/ KeyNotText \/ NoHex) => invocations = 0
    /\ (vplPc \in {"returned", "thrown"} /\ FnAbsent) => vplError = ErrVerifyFn
    /\ (vplPc \in {"returned", "thrown"} /\ ~FnAbsent /\ KeyNotText) => vplError = ErrKey
    /\ (vplPc \in {"returned", "thrown"} /\ ~FnAbsent /\ ~KeyNotText /\ NoHex) => vplError = ErrHex
    /\ (vplPc \in {"returned", "thrown"} /\ ~FnAbsent /\ ~KeyNotText /\ ~NoHex) => invocations = 1

\* The key and the hex are both missing: the key error is the one thrown,
\* with no call of the collaborator.
C5_Witness ==
    /\ vplPc = "thrown"
    /\ ~FnAbsent /\ KeyNotText /\ NoHex
    /\ vplError = ErrKey
    /\ invocations = 0

----------------------------------------------------------------------------
(* C11: when expected.timestamp is supplied, validateExpected reports a    *)
(* timestamp error iff the whole parts of the expected and the normalized  *)
(* timestamp differ by more than 1800 seconds: exactly 1800 passes, 1801   *)
(* fails.                                                                  *)

TimestampErrorPrefix == <<"timestamp out of skew: expected=">>

HasTimestampError == \E i \in 1..Len(errors) : StartsWith(errors[i], TimestampErrorPrefix)

\* The distance of the whole parts of the two timestamps.
WholeDistance == Abs(Get(expected, "timestamp").v - Get(claim, "timestamp").v)

C11_SkewBoundary ==
    (/\ pc = "done"
     /\ expected.t = "obj"
     /\ IsNum(Get(expected, "timestamp"))
     /\ IsNum(Get(claim, "timestamp"))) =>
        /\ HasTimestampError <=> WholeDistance > 1800
        /\ WholeDistance = 1800 => ~HasTimestampError
        /\ WholeDistance = 1801 => HasTimestampError

\* The normalized timestamp is 1801 seconds after the expected one.
C11_Witness ==
    /\ pc = "done"
    /\ Get(expected, "timestamp") = Num(3600)
    /\ Get(claim, "timestamp") = Num(5401)
    /\ WholeDistance = 1801
    /\ HasTimestampError

----------------------------------------------------------------------------
(* C12: validateExpected does not short-circuit: the returned list holds   *)
(* exactly one error for each of the constraints amount, timestamp,        *)
(* transferId and payerRef that the caller supplied and that is violated,  *)
(* and nothing else; with no constraint supplied the list is empty.        *)

ErrorsWith(prefix) == {i \in 1..Len(errors) : StartsWith(errors[i], prefix)}

AmountViolated ==
    /\ PurelyDigits(Get(expected, "amount"))
    /\ PurelyDigits(Get(claim, "amount"))
    /\ Get(expected, "amount").v # Get(claim, "amount").v

TimestampViolated ==
    /\ IsNum(Get(expected, "timestamp"))
    /\ IsNum(Get(claim, "timestamp"))
    /\ WholeDistance > 1800

TextViolated(f) ==
    /\ IsStr(Get(expected, f)) /\ Trim(Get(expected, f).v) # <<>>
    /\ IsStr(Get(claim, f)) /\ Trim(Get(claim, f).v) # <<>>
    /\ Trim(Get(expected, f).v) # Trim(Get(claim, f).v)

One(violated) == IF violated THEN 1 ELSE 0

C12_OneErrorPerViolation ==
    (pc = "done" /\ IsNum(Get(claim, "timestamp"))) =>
        IF expected.t = "obj"
        THEN /\ Cardinality(ErrorsWith(AmountMismatchPrefix)) = One(AmountViolated)
             /\ Cardinality(ErrorsWith(TimestampErrorPrefix)) = One(TimestampViolated)
             /\ Cardinality(ErrorsWith(<<"transferId", " mismatch: expected=">>))
                    = One(TextViolated("transferId"))
             /\ Cardinality(ErrorsWith(<<"payerRef", " mismatch: expected=">>))
                    = One(TextViolated("payerRef"))
             /\ Len(errors) = One(AmountViolated) + One(TimestampViolated)
                    + One(TextViolated("transferId")) + One(TextViolated("payerRef"))
             /\ expected = Obj(<<>>) => errors = <<>>
        ELSE errors = <<>>

----------------------------------------------------------------------------
(* C13: the completeness gate rejects a normalized claim iff at least one  *)
(* of amount, timestamp, payerRef, transferId, sourceHost is missing; the  *)
(* details of the rejection hold exactly one message per missing field,    *)
(* naming it; a timestamp of 0 counts as missing.                          *)

MissingField(f) ==
    \/ Get(GatedClaim, f) = Undef
    \/ f = "timestamp" /\ Get(GatedClaim, f) = Num(0)

RejectedIncomplete == response.status = 400 /\ Get(response.json, "error") = Str(ErrMissingFields)

MissingMessages(f) ==
    LET details == Get(response.json, "details").v
    IN  {i \in 1..Len(details) : details[i] = Str(<<f, " missing">>)}

C13_CompletenessGate ==
    (hPc = "responded" /\ rawBag # Absent) =>
        /\ RejectedIncomplete <=> \E f \in ClaimFields : MissingField(f)
        /\ RejectedIncomplete =>
              /\ \A f \in ClaimFields : Cardinality(MissingMessages(f)) = One(MissingField(f))
              /\ Len(Get(response.json, "details").v) = Cardinality({f \in ClaimFields : MissingField(f)})
        /\ Get(GatedClaim, "timestamp") = Num(0) => RejectedIncomplete

\* A claim with the timestamp 0 and no payerRef: both are named.
C13_Witness ==
    /\ hPc = "responded"
    /\ rawBag # Absent
    /\ Get(GatedClaim, "timestamp") = Num(0)
    /\ Get(GatedClaim, "amount") # Undef
    /\ RejectedIncomplete
    /\ Cardinality(MissingMessages("timestamp")) = 1
    /\ Cardinality(MissingMessages("payerRef")) = 1
    /\ Cardinality(MissingMessages("amount")) = 0

----------------------------------------------------------------------------
(* C14: extractPresentationHex returns undefined when the only valid hex   *)
(* leaf lies 6 or more levels below the root, a level being a candidate    *)
(* key (of the node or of its meta) or a JSON text; it returns the         *)
(* normalized hex when a valid hex leaf lies exactly 5 levels below.       *)

\* The levels below a node at which valid hex leaves lie.
RECURSIVE LeafLevels(_)
LeafLevels(node) ==
    LET below(child) == {n + 1 : n \in LeafLevels(child)}
        under(record) == UNION {below(Get(record, candidateKeys[k])) : k \in 1..Len(candidateKeys)}
    IN  IF IsStr(node)
        THEN IF Truthy(normalizeHexString(node)) THEN {0}
             ELSE IF Truthy(maybeParseJsonString(node)) THEN below(maybeParseJsonString(node))
             ELSE {}
        ELSE IF node.t = "obj" THEN under(node) \cup under(asRecord(Get(node, "meta")))
        ELSE {}

C14_DepthBound ==
    pc = "done" =>
        /\ (LeafLevels(callArgs) # {} /\ \A n \in LeafLevels(callArgs) : n >= 6) => callResult = Undef
        /\ 5 \in LeafLevels(callArgs) => callResult = Str(<<"a", "b", "1">>)

\* The hex lies five levels down, one of them a JSON text.
C14_Witness ==
    /\ pc = "done"
    /\ callArgs = Nest(<<"data", "meta", "data", "json", "data">>, Str(HexText))
    /\ LeafLevels(callArgs) = {5}
    /\ callResult = Str(<<"a", "b", "1">>)

----------------------------------------------------------------------------
(* C15: normalizeVerifierData merges the raw bag with the section under    *)
(* the first existing of claimData, extracted, normalized, data, fields;   *)
(* a field name present both in that section and at the root is resolved   *)
(* from the section: the root's value has no part in the normalized claim. *)

\* The section under the first of the names that exists.
NestedSection ==
    LET existing == {i \in 1..Len(SectionNames) : Get(callArgs, SectionNames[i]) \notin {Undef, Null}}
        first == CHOOSE i \in existing : \A j \in existing : i <= j
    IN  IF existing # {} /\ Get(callArgs, SectionNames[first]).t = "obj"
        THEN Get(callArgs, SectionNames[first])
        ELSE Obj(<<>>)

\* The field names the section and the root both have.
SharedNames ==
    {k \in {Keys(NestedSection)[n] : n \in 1..Len(Keys(NestedSection))} : HasKey(callArgs, k)}

\* The bag without its root property k.
Without(bag, k) == Obj(SelectSeq(bag.v, LAMBDA pair : pair[1] # k))

TextFields == {"amount", "payerRef", "transferId", "sourceHost"}

C15_SectionShadowsRoot ==
    pc = "done" =>
        \A k \in SharedNames :
            /\ callResult = normalizeVerifierData(Without(callArgs, k))
            /\ (k \in TextFields /\ IsStr(Get(NestedSection, k)) /\ Trim(Get(NestedSection, k).v) # <<>>)
                  => Get(callResult, k) = Str(Trim(Get(NestedSection, k).v))
            /\ (k = "timestamp" /\ IsNum(Get(NestedSection, k)))
                  => Get(callResult, k) = Get(NestedSection, k)

\* claimData is null, extracted is the section, fields is not looked at:
\* the amount, the timestamp and the host of the root give way.
C15_Witness ==
    /\ pc = "done"
    /\ Get(callArgs, "claimData") = Null
    /\ Get(callArgs, "extracted") = NestedSection
    /\ Get(callArgs, "amount") = Str(<<"1", "0", "0">>)
    /\ Get(callArgs, "sourceHost") = Str(ApiWiseCom)
    /\ {"amount", "timestamp", "sourceHost", "payerRef"} \subseteq SharedNames
    /\ Get(callResult, "amount") = Str(<<"7">>)
    /\ Get(callResult, "timestamp") = Num(6000)
    /\ Get(callResult, "sourceHost") = Str(EvilWiseCom)

----------------------------------------------------------------------------
(* C16: on the local-verification path, whenever the verification          *)
(* collaborator reports a server name, the sourceHost that is checked      *)
(* against the allow-list and returned in an accepted (200) claim is that  *)
(* server name: no field of the attestation payload replaces it.           *)

\* The server name the collaborator reported, if it reported one.
ReportedServerName ==
    IF IsStr(Get(rawResult, "server_name")) /\ Trim(Get(rawResult, "server_name").v) # <<>>
    THEN Str(Trim(Get(rawResult, "server_name").v))
    ELSE Undef

C16_VerifierHostChecked ==
    (hPc = "responded" /\ rawBag # Absent /\ CollaboratorReturned /\ ReportedServerName # Undef) =>
        /\ Get(GatedClaim, "sourceHost") = ReportedServerName
        /\ IsAccepted => Get(Get(response.json, "normalized"), "sourceHost") = ReportedServerName

----------------------------------------------------------------------------
(* C17: for one attestation, two normalized claims that differ in          *)
(* sourceHost, transferId, payerRef, amount or the whole part of the       *)
(* timestamp have different pipe-joined preimages, hence different receipt *)
(* hashes unless the digest collides (the digest of the model never does). *)

ClaimsDiffer ==
    \/ \E f \in TextFields : Get(callArgs[1], f) # Get(callArgs[2], f)
    \/ Trunc(Get(callArgs[1], "timestamp")) # Trunc(Get(callArgs[2], "timestamp"))

C17_DistinctPreimages == (pc = "done" /\ ClaimsDiffer) => callResult[1] # callResult[2]

====
